---- MODULE Spec2Model ----
(***************************************************************************)
(* Slice backend (backend/main.py): receipt scanning, totals detection,    *)
(* primary/secondary arbitration, lobby claims and the settlement.         *)
(*                                                                         *)
(* Money is held in integer cents.  Quantities are held in units of 1e-6   *)
(* (Scale units make one whole item), so that the 1e-6 slack of the claim  *)
(* checks is exactly one unit.  An optional value is <<>> (None) or <<v>>. *)
(* round(x, 2) of a value that lies exactly between two cents depends on   *)
(* the binary representation of the float; the settlement therefore takes  *)
(* the direction of such ties as a nondeterministic input (tieUp).         *)
(* Money amounts stay below 7.00 so that cents times quantity units fit    *)
(* the 32-bit integers of the checker.                                     *)
(***************************************************************************)
EXTENDS Integers, Sequences, FiniteSets, TLC

(***************************************************************************)
(* Bounds of the model.                                                    *)
(***************************************************************************)
MaxUsers == 2
MaxQty == 2

\* quantity units per whole item: the tolerance 1e-6 of the claim checks is one unit
Scale == 1000000

None == <<>>
Some(v) == <<v>>
IsNone(o) == o = <<>>
Val(o) == o[1]

Abs(x) == IF x < 0 THEN 0 - x ELSE x
Max(a, b) == IF a >= b THEN a ELSE b
Min(a, b) == IF a <= b THEN a ELSE b

RECURSIVE SumSeq(_)
\* F of the value of e, with e evaluated once
With(e, F(_)) == CHOOSE out \in {F(v) : v \in {e}} : TRUE

SumSeq(s) == IF s = <<>> THEN 0 ELSE s[1] + SumSeq(Tail(s))

\* floor(n / d) for d > 0 and any integer n
FloorDiv(n, d) == n \div d

\* round(n / d) to the nearest integer, n >= 0, d > 0; tieUp decides an exact half
RoundDiv(n, d, tieUp) ==
    LET q == n \div d
        r == n % d
    IN  IF 2 * r > d THEN q + 1
        ELSE IF 2 * r < d THEN q
        ELSE IF tieUp THEN q + 1 ELSE q

VARIABLES
    items,           \* lobby_items rows in fetch order (item n is "itm_n")
    participants,    \* participants rows in fetch order (user ids)
    joined,          \* number of users that have joined (user ids are 1..joined)
    claims,          \* claims rows: claims[i][u] = claimed quantity, 0 = no row
    host_user_id,    \* lobbies.host_user_id, None until the first join
    receipt_totals,  \* lobbies.receipt_totals_json
    response         \* the response to the last lobby request

lobbyVars == <<items, participants, joined, claims, host_user_id, receipt_totals, response>>

VARIABLES
    receipt_lines,          \* the OCR lines given to extract_items_from_lines
    line_no,                \* position of the loop of _extract_items_from_lines
    strict_pass,            \* TRUE in the strict pass, FALSE in the fallback pass
    inside_item_table,      \* local of the running pass
    saw_table_header,       \* local of the running pass
    found_items,            \* the items list of the running pass
    extracted               \* what extract_items_from_lines returned, None before

extractVars == <<receipt_lines, line_no, strict_pass, inside_item_table,
                 saw_table_header, found_items, extracted>>

VARIABLES
    bill_lines,             \* the raw lines given to detect_bill_totals
    bill_totals             \* what detect_bill_totals returned, None before

totalsVars == <<bill_lines, bill_totals>>

VARIABLES
    scan_request,           \* the upload, the query flags and what the secondary source will do
    scan_primary,           \* what run_paddle_pipeline returned in scan_bill, None before
    scan_arbitration,       \* the locals of scan_bill after the arbitration, None before
    scan_response,          \* the response of scan_bill, None before
    gemini_calls            \* number of calls of call_gemini_fallback

scanVars == <<scan_request, scan_primary, scan_arbitration, scan_response, gemini_calls>>

VARIABLES
    claim_calls             \* the locals of the claim requests being served, per user

claimVars == <<claim_calls>>

vars == <<lobbyVars, extractVars, totalsVars, scanVars, claimVars>>

UserIds == 1 .. MaxUsers
\* the item rows a lobby of the model can hold
ItemIds == {1, 2}

(***************************************************************************)
(* Storage reads (fetch_lobby_items, fetch_participants, fetch_claims).    *)
(***************************************************************************)
item_exists(item_id) == item_id \in 1 .. Len(items)

is_participant(user_id) == \E p \in 1 .. Len(participants) : participants[p] = user_id

\* sum(float(v) for v in claims[item_id].values())
claimed_qty_sum(item_id) ==
    SumSeq([u \in UserIds |-> claims[item_id][u]])

\* sum(float(v) for uid, v in claims[item_id].items() if uid != req.user_id)
claimed_by_others(item_id, user_id) ==
    SumSeq([u \in UserIds |-> IF u = user_id THEN 0 ELSE claims[item_id][u]])

NoClaims == [i \in ItemIds |-> [u \in UserIds |-> 0]]

\* no claim request is being served
NoClaimCalls == claim_calls = [u \in UserIds |-> None]

(***************************************************************************)
(* compute_lobby_summary: the settlement.                                  *)
(***************************************************************************)
\* unit_cost * qty, rounded to cents: unit_cost is cost / quantity, or the
\* cost itself when the item's quantity is not positive
claim_amount(it, qty, tieUp) ==
    IF it.quantity > 0
    THEN RoundDiv(it.cost * qty, it.quantity, tieUp)
    ELSE RoundDiv(it.cost * qty, Scale, tieUp)

\* per_user[user_id]["base_total"] after the loop over the items
base_total(user_id, tieUp) ==
    SumSeq([i \in 1 .. Len(items) |->
              IF claims[i][user_id] > 0
              THEN claim_amount(items[i], claims[i][user_id], tieUp)
              ELSE 0])

unclaimed_item_total(tieUp) ==
    SumSeq([i \in 1 .. Len(items) |->
              claim_amount(items[i], Max(0, items[i].quantity - claimed_qty_sum(i)), tieUp)])

computed_item_subtotal == SumSeq([i \in 1 .. Len(items) |-> items[i].cost])

manual_added_total ==
    SumSeq([i \in 1 .. Len(items) |->
              IF items[i].category_source = "user_selected" THEN items[i].cost ELSE 0])

item_subtotal ==
    IF ~IsNone(receipt_totals.detected_subtotal)
    THEN Val(receipt_totals.detected_subtotal) + manual_added_total
    ELSE computed_item_subtotal

grand_total ==
    IF ~IsNone(receipt_totals.detected_grand_total)
    THEN Val(receipt_totals.detected_grand_total) + manual_added_total
    ELSE item_subtotal

extra_charges == Max(0, grand_total - item_subtotal)

\* int(round(extra_charges * 100))
extra_cents == extra_charges

\* numerator of raw = extra_cents * weight / item_subtotal
raw_num(user_id, tieUp) == extra_cents * Max(0, base_total(user_id, tieUp))

\* base = int(math.floor(raw))
floor_cents(user_id, tieUp) == FloorDiv(raw_num(user_id, tieUp), item_subtotal)

\* numerator of raw_cents[uid] - extra_share_cents[uid], over item_subtotal
fraction_num(user_id, tieUp) == raw_num(user_id, tieUp) % item_subtotal

floor_sum(tieUp) ==
    SumSeq([p \in 1 .. Len(participants) |-> floor_cents(participants[p], tieUp)])

remainder(tieUp) == Max(0, extra_cents - floor_sum(tieUp))

\* raw = (extra_cents * weight) / item_subtotal is a binary floating-point
\* division, so the computed fractions raw - floor(raw) of two equal ratios
\* can differ in their last bits.  The order of the computed fractions of
\* equal ratios, for the amounts (in cents) of the settlements below whose
\* computed fraction is not the nearest one to the ratio: a larger number
\* is a larger computed fraction; unequal ratios keep their order
float_residue(extra, weight, subtotal) ==
    CASE <<extra, weight, subtotal>> = <<2, 100, 600>> -> 0 - 1
      [] <<extra, weight, subtotal>> = <<2, 200, 600>> -> 0 - 1
      [] <<extra, weight, subtotal>> = <<2, 400, 600>> -> 0 - 2
      [] <<extra, weight, subtotal>> = <<2, 500, 600>> -> 1
      [] OTHER -> 0

\* the sort key of by_fraction: the ratio, then the last bits of its quotient
fraction_above(user2, user, tieUp) ==
    \/ fraction_num(user2, tieUp) > fraction_num(user, tieUp)
    \/ /\ fraction_num(user2, tieUp) = fraction_num(user, tieUp)
       /\ float_residue(extra_cents, Max(0, base_total(user2, tieUp)), item_subtotal)
            > float_residue(extra_cents, Max(0, base_total(user, tieUp)), item_subtotal)

\* position of participants[p] in by_fraction, counted from 0: sorted() is
\* stable, so equal fractions keep the participants' order
fraction_rank(p, tieUp) ==
    Cardinality({p2 \in 1 .. Len(participants) :
        \/ fraction_above(participants[p2], participants[p], tieUp)
        \/ /\ ~fraction_above(participants[p], participants[p2], tieUp)
           /\ p2 < p})

extra_share_cents(p, tieUp) ==
    IF extra_cents > 0 /\ item_subtotal > 0
    THEN floor_cents(participants[p], tieUp)
         + (IF remainder(tieUp) > 0 /\ fraction_rank(p, tieUp) < remainder(tieUp) THEN 1 ELSE 0)
    ELSE 0

summary_users(tieUp) ==
    [p \in 1 .. Len(participants) |->
        [user_id     |-> participants[p],
         base_total  |-> base_total(participants[p], tieUp),
         extra_share |-> extra_share_cents(p, tieUp),
         total       |-> base_total(participants[p], tieUp) + extra_share_cents(p, tieUp)]]

compute_lobby_summary(tieUp) ==
    LET users == summary_users(tieUp)
        claimed_total == SumSeq([p \in 1 .. Len(users) |-> users[p].total])
    IN  [item_subtotal        |-> item_subtotal,
         extra_charges        |-> extra_charges,
         grand_total          |-> grand_total,
         claimed_total        |-> claimed_total,
         claimed_base_total   |-> SumSeq([p \in 1 .. Len(users) |-> users[p].base_total]),
         unclaimed_total      |-> Max(0, grand_total - claimed_total),
         unclaimed_item_total |-> unclaimed_item_total(tieUp),
         users                |-> users]

(***************************************************************************)
(* Lobby request handlers.  Every handler answers with the status of the   *)
(* HTTPException it raises, or 200.                                        *)
(***************************************************************************)
Reply(op, status) == [op |-> op, status |-> status, body |-> None]

Categories == {"veg", "non_veg", "drinks", "other"}
OTHER_CATEGORY_OPTIONS == {"starter", "main_course", "bread", "rice", "dessert", "snack", "side"}

\* validate_lobby_passcode: 0 when the passcode matches, else the status raised
validate_lobby_passcode(pass_ok) == IF pass_ok THEN 0 ELSE 401

\* validate_host_actor: 0 when the actor passes, else the status raised
validate_host_actor(actor_user_id) ==
    IF IsNone(actor_user_id) THEN 403
    ELSE IF ~IsNone(host_user_id) /\ Val(actor_user_id) # Val(host_user_id) THEN 403
    ELSE 0

\* validate_participant_actor
validate_participant_actor(actor_user_id) ==
    IF is_participant(actor_user_id) THEN 0 ELSE 403

\* normalize_lobby_items: one payload of /lobby/create
normalize_lobby_item(payload) ==
    LET quantity == IF payload.quantity <= 0 THEN Scale ELSE payload.quantity
        unit_price == IF payload.unit_price <= 0 /\ payload.cost > 0
                      THEN RoundDiv(payload.cost * Scale, quantity, TRUE)
                      ELSE payload.unit_price
    IN  [quantity |-> quantity, unit_price |-> unit_price, cost |-> payload.cost,
         category_source |-> "none"]

\* POST /lobby/{lobby_id}/join; the new row may come anywhere in the fetch
\* order of participants (the table is read without ORDER BY)
join_lobby(pass_ok, pos) ==
    /\ joined < MaxUsers
    /\ pos \in 1 .. Len(participants) + 1
    /\ IF validate_lobby_passcode(pass_ok) # 0
       THEN /\ response' = Reply("join", validate_lobby_passcode(pass_ok))
            /\ UNCHANGED <<items, participants, joined, claims, host_user_id, receipt_totals>>
       ELSE /\ joined' = joined + 1
            /\ participants' = SubSeq(participants, 1, pos - 1) \o <<joined + 1>>
                                 \o SubSeq(participants, pos, Len(participants))
            /\ host_user_id' = IF IsNone(host_user_id) THEN Some(joined + 1) ELSE host_user_id
            /\ response' = Reply("join", 200)
            /\ UNCHANGED <<items, claims, receipt_totals>>

\* the allowance a claim would get if the other participants' claims were ignored
max_allowed_ignoring_others(item_id, user_id) == items[item_id].quantity

\* max_allowed = float(item["quantity"]) - claimed_by_others
max_allowed(item_id, user_id) == items[item_id].quantity - claimed_by_others(item_id, user_id)

\* the status claim_item answers with
claim_item_status(pass_ok, user_id, item_id, quantity) ==
    IF validate_lobby_passcode(pass_ok) # 0 THEN validate_lobby_passcode(pass_ok)
    ELSE IF ~is_participant(user_id) THEN 400
    ELSE IF ~item_exists(item_id) THEN 404
    ELSE IF quantity < 0 THEN 400
    ELSE IF quantity > max_allowed(item_id, user_id) + 1 THEN 400
    ELSE 200

\* POST /lobby/{lobby_id}/claim
claim_item(pass_ok, user_id, item_id, quantity) ==
    /\ response' = Reply("claim", claim_item_status(pass_ok, user_id, item_id, quantity))
    /\ IF claim_item_status(pass_ok, user_id, item_id, quantity) = 200
       THEN claims' = [claims EXCEPT ![item_id][user_id] = quantity]
       ELSE UNCHANGED claims
    /\ UNCHANGED <<items, participants, joined, host_user_id, receipt_totals>>

\* claim_item in the steps of a request that is served side by side with
\* others: the checks in front of fetch_claims, 0 when they pass
claim_item_precheck(pass_ok, user_id, item_id, quantity) ==
    IF validate_lobby_passcode(pass_ok) # 0 THEN validate_lobby_passcode(pass_ok)
    ELSE IF ~is_participant(user_id) THEN 400
    ELSE IF ~item_exists(item_id) THEN 404
    ELSE IF quantity < 0 THEN 400
    ELSE 0

\* first step: the request is validated, then item and claims are read into
\* the locals of the call
claim_item_read(pass_ok, user_id, item_id, quantity) ==
    /\ IsNone(claim_calls[user_id])
    /\ IF claim_item_precheck(pass_ok, user_id, item_id, quantity) # 0
       THEN /\ response' = Reply("claim", claim_item_precheck(pass_ok, user_id, item_id, quantity))
            /\ UNCHANGED claim_calls
       ELSE /\ claim_calls' = [claim_calls EXCEPT ![user_id] =
                                 Some([item_id |-> item_id,
                                       quantity |-> quantity,
                                       item_quantity |-> items[item_id].quantity,
                                       claims |-> claims[item_id],
                                       checked |-> FALSE])]
            /\ UNCHANGED response
    /\ UNCHANGED <<items, participants, joined, claims, host_user_id, receipt_totals>>

\* max_allowed of a call, from the claims it has read
call_max_allowed(user_id, call) ==
    call.item_quantity
      - SumSeq([u \in UserIds |-> IF u = user_id THEN 0 ELSE call.claims[u]])

\* second step: the requested quantity is compared with max_allowed
claim_item_check(user_id) ==
    /\ ~IsNone(claim_calls[user_id])
    /\ ~Val(claim_calls[user_id]).checked
    /\ IF Val(claim_calls[user_id]).quantity
            > call_max_allowed(user_id, Val(claim_calls[user_id])) + 1
       THEN /\ response' = Reply("claim", 400)
            /\ claim_calls' = [claim_calls EXCEPT ![user_id] = None]
       ELSE /\ claim_calls' = [claim_calls EXCEPT ![user_id] =
                                 Some([Val(@) EXCEPT !.checked = TRUE])]
            /\ UNCHANGED response
    /\ UNCHANGED <<items, participants, joined, claims, host_user_id, receipt_totals>>

\* third step: the claims row is deleted or written and committed
claim_item_write(user_id) ==
    /\ ~IsNone(claim_calls[user_id])
    /\ Val(claim_calls[user_id]).checked
    /\ claims' = [claims EXCEPT ![Val(claim_calls[user_id]).item_id][user_id] =
                     Val(claim_calls[user_id]).quantity]
    /\ claim_calls' = [claim_calls EXCEPT ![user_id] = None]
    /\ response' = Reply("claim", 200)
    /\ UNCHANGED <<items, participants, joined, host_user_id, receipt_totals>>

\* the status update_item_category answers with
update_item_category_status(pass_ok, actor_user_id, item_id, category, other_subcategory) ==
    IF validate_lobby_passcode(pass_ok) # 0 THEN validate_lobby_passcode(pass_ok)
    ELSE IF validate_host_actor(actor_user_id) # 0 THEN validate_host_actor(actor_user_id)
    ELSE IF ~item_exists(item_id) THEN 404
    ELSE IF category \notin Categories THEN 400
    ELSE IF category = "other" /\ other_subcategory # ""
            /\ other_subcategory \notin OTHER_CATEGORY_OPTIONS THEN 400
    ELSE 200

\* POST /lobby/{lobby_id}/item-category
update_item_category(pass_ok, actor_user_id, item_id, category, other_subcategory) ==
    LET status == update_item_category_status(pass_ok, actor_user_id, item_id, category,
                                              other_subcategory)
    IN  /\ response' = Reply("item-category", status)
        /\ IF status = 200
           THEN items' = [items EXCEPT ![item_id].category_source = "user_selected"]
           ELSE UNCHANGED items
        /\ UNCHANGED <<participants, joined, claims, host_user_id, receipt_totals>>

\* abs(cost - expected_cost) > max(1.0, 0.05 * max(1.0, expected_cost)), in cents
cost_mismatch(cost, expected_cost) ==
    100 * Abs(cost - expected_cost) > Max(10000, 5 * Max(100, expected_cost))

\* round(quantity * unit_price, 2)
expected_cost(quantity, unit_price, tieUp) == RoundDiv(quantity * unit_price, Scale, tieUp)

\* round(cost / quantity, 2)
derived_unit_price(cost, quantity, tieUp) == RoundDiv(cost * Scale, quantity, tieUp)

\* the fields update_lobby_item works with: an absent request field falls
\* back to the stored one
update_new_qty(req, item_id) ==
    IF IsNone(req.quantity) THEN items[item_id].quantity ELSE Val(req.quantity)

update_given_unit(req, item_id) ==
    IF IsNone(req.unit_price) THEN items[item_id].unit_price ELSE Val(req.unit_price)

update_given_cost(req, item_id) ==
    IF IsNone(req.cost) THEN items[item_id].cost ELSE Val(req.cost)

\* new_cost after the re-derivation
update_new_cost(req, item_id, tieUp) ==
    IF IsNone(req.cost) /\ ~IsNone(req.unit_price)
    THEN expected_cost(update_new_qty(req, item_id), update_given_unit(req, item_id), tieUp)
    ELSE update_given_cost(req, item_id)

\* new_unit after the re-derivation
update_new_unit(req, item_id, tieUp) ==
    IF IsNone(req.unit_price) /\ ~IsNone(req.cost) /\ update_new_qty(req, item_id) > 0
    THEN derived_unit_price(update_given_cost(req, item_id), update_new_qty(req, item_id), tieUp)
    ELSE update_given_unit(req, item_id)

\* the quantity check of update_lobby_item against the stored claims
update_below_claimed(req, item_id) ==
    claimed_qty_sum(item_id) > update_new_qty(req, item_id) + 1

\* the status update_lobby_item answers with
update_lobby_item_status(pass_ok, actor_user_id, item_id, req, tieUp) ==
    IF validate_lobby_passcode(pass_ok) # 0 THEN validate_lobby_passcode(pass_ok)
    ELSE IF validate_host_actor(actor_user_id) # 0 THEN validate_host_actor(actor_user_id)
    ELSE IF ~item_exists(item_id) THEN 404
    ELSE IF ~req.name_ok THEN 400
    ELSE IF update_new_qty(req, item_id) <= 0 THEN 400
    ELSE IF update_given_unit(req, item_id) < 0 THEN 400
    ELSE IF update_given_cost(req, item_id) < 0 THEN 400
    ELSE IF /\ ~IsNone(req.cost)
            /\ ~IsNone(req.unit_price)
            /\ cost_mismatch(update_given_cost(req, item_id),
                             expected_cost(update_new_qty(req, item_id),
                                           update_given_unit(req, item_id), tieUp))
         THEN 400
    ELSE IF update_below_claimed(req, item_id) THEN 400
    ELSE IF ~IsNone(req.category) /\ Val(req.category) \notin Categories THEN 400
    ELSE 200

\* POST /lobby/{lobby_id}/item-update
update_lobby_item(pass_ok, actor_user_id, item_id, req, tieUp) ==
    LET status == update_lobby_item_status(pass_ok, actor_user_id, item_id, req, tieUp)
    IN  /\ response' = Reply("item-update", status)
        /\ IF status = 200
           THEN items' = [items EXCEPT ![item_id] =
                            [quantity        |-> update_new_qty(req, item_id),
                             unit_price      |-> update_new_unit(req, item_id, tieUp),
                             cost            |-> update_new_cost(req, item_id, tieUp),
                             category_source |-> "host_edited"]]
           ELSE UNCHANGED items
        /\ UNCHANGED <<participants, joined, claims, host_user_id, receipt_totals>>

\* the status reset_claim answers with
reset_claim_status(pass_ok, actor_user_id, item_id) ==
    IF validate_lobby_passcode(pass_ok) # 0 THEN validate_lobby_passcode(pass_ok)
    ELSE IF validate_host_actor(actor_user_id) # 0 THEN validate_host_actor(actor_user_id)
    ELSE IF ~item_exists(item_id) THEN 404
    ELSE 200

\* POST /lobby/{lobby_id}/claim-reset: one user's claim, or all claims of the item
reset_claim(pass_ok, actor_user_id, item_id, user_id) ==
    LET status == reset_claim_status(pass_ok, actor_user_id, item_id)
    IN  /\ response' = Reply("claim-reset", status)
        /\ IF status = 200
           THEN claims' = [claims EXCEPT ![item_id] =
                             [u \in UserIds |->
                                 IF IsNone(user_id) \/ Val(user_id) = u THEN 0 ELSE @[u]]]
           ELSE UNCHANGED claims
        /\ UNCHANGED <<items, participants, joined, host_user_id, receipt_totals>>

\* unit_price of add_lobby_item after the normalisation against an explicit cost
add_unit_price(req, tieUp) ==
    IF IsNone(req.cost) THEN req.unit_price
    ELSE IF req.unit_price <= 0 /\ req.quantity > 0
         THEN derived_unit_price(Val(req.cost), req.quantity, tieUp)
    ELSE IF cost_mismatch(Val(req.cost), expected_cost(req.quantity, req.unit_price, tieUp))
         THEN derived_unit_price(Val(req.cost), req.quantity, tieUp)
    ELSE req.unit_price

add_cost(req, tieUp) ==
    IF IsNone(req.cost) THEN expected_cost(req.quantity, req.unit_price, tieUp)
    ELSE Val(req.cost)

\* the status add_lobby_item answers with
add_lobby_item_status(pass_ok, actor_user_id, req) ==
    IF validate_lobby_passcode(pass_ok) # 0 THEN validate_lobby_passcode(pass_ok)
    ELSE IF validate_participant_actor(actor_user_id) # 0
         THEN validate_participant_actor(actor_user_id)
    ELSE IF ~req.name_ok THEN 400
    ELSE IF req.quantity <= 0 THEN 400
    ELSE IF req.unit_price < 0 THEN 400
    ELSE IF IsNone(req.cost) /\ req.unit_price <= 0 THEN 400
    ELSE IF ~IsNone(req.cost) /\ Val(req.cost) <= 0 THEN 400
    ELSE IF ~IsNone(req.category) /\ Val(req.category) \notin Categories THEN 400
    ELSE 200

\* POST /lobby/{lobby_id}/item-add; the new item is itm_{max + 1}
add_lobby_item(pass_ok, actor_user_id, req, tieUp) ==
    LET status == add_lobby_item_status(pass_ok, actor_user_id, req)
    IN  /\ Len(items) < Cardinality(ItemIds)
        /\ response' = Reply("item-add", status)
        /\ IF status = 200
           THEN items' = Append(items,
                            [quantity        |-> req.quantity,
                             unit_price      |-> add_unit_price(req, tieUp),
                             cost            |-> add_cost(req, tieUp),
                             category_source |-> IF IsNone(req.category)
                                                 THEN "none" ELSE "user_selected"])
           ELSE UNCHANGED items
        /\ UNCHANGED <<participants, joined, claims, host_user_id, receipt_totals>>

\* GET /lobby/{lobby_id}/summary
lobby_summary(pass_ok, tieUp) ==
    /\ response' = IF validate_lobby_passcode(pass_ok) # 0
                   THEN Reply("summary", validate_lobby_passcode(pass_ok))
                   ELSE [op |-> "summary", status |-> 200,
                         body |-> Some(compute_lobby_summary(tieUp))]
    /\ UNCHANGED <<items, participants, joined, claims, host_user_id, receipt_totals>>

(***************************************************************************)
(* Receipt lines.  A line is a label of the vocabulary below followed by   *)
(* numeric tokens separated by single spaces.  A token holds its value in  *)
(* hundredths (c) and the decimals it is printed with (dec): 0, 2, or 3    *)
(* with a last digit 0 ("2.000", "1.500"); only tokens of two decimals are *)
(* negative.  A token of three decimals can also lie a few thousandths     *)
(* above a whole number ("0.004", "2.004"): it holds the whole number in c *)
(* and the thousandths in mil; such a token does not follow a quantity     *)
(* word and is not the quantity of a row of only a quantity and a total.   *)
(* What a pattern or keyword test of the code answers for a label is       *)
(* tabulated per label.  Extracted items hold quantity in hundredths and   *)
(* unit_price, cost in cents.                                              *)
(***************************************************************************)
Tok(c, dec) == [c |-> c, dec |-> dec]

TokMil(whole, mil) == [c |-> 100 * whole, dec |-> 3, mil |-> mil]

\* the thousandths of a token above its hundredths
Mils(t) == IF "mil" \in DOMAIN t THEN t.mil ELSE 0

Line(label, nums) == [label |-> label, nums |-> nums]

RECURSIVE Pow10(_)
Pow10(k) == IF k = 0 THEN 1 ELSE 10 * Pow10(k - 1)

\* len(str(n)) for n >= 0
RECURSIVE Digits(_)
Digits(n) == IF n < 10 THEN 1 ELSE 1 + Digits(n \div 10)

\* int(round(x)) of an amount of c hundredths (an exact half goes to the even integer)
RoundHalfEven(c) ==
    LET q == c \div 100
        r == c % 100
    IN  IF r > 50 THEN q + 1
        ELSE IF r < 50 THEN q
        ELSE IF q % 2 = 0 THEN q ELSE q + 1

\* normalize_line_text, third substitution: a token "dNNN.NN" followed by the
\* token "NNN.NN" (2 to 4 digits before the point) is split into "d NNN.NN"
glued_digit(t, next) ==
    LET k == Digits(next.c \div 100)
        p == Pow10(k)
    IN  IF /\ t.dec = 2 /\ next.dec = 2 /\ k \in 2 .. 4
           /\ t.c % 100 = next.c % 100
           /\ (t.c \div 100) % p = next.c \div 100
           /\ (t.c \div 100) \div p \in 1 .. 9
        THEN (t.c \div 100) \div p
        ELSE 0

RECURSIVE normalize_nums(_)
normalize_nums(nums) ==
    IF Len(nums) < 2 THEN nums
    ELSE IF glued_digit(nums[1], nums[2]) > 0
         THEN <<Tok(100 * glued_digit(nums[1], nums[2]), 0), nums[2]>>
              \o normalize_nums(Tail(nums))
         ELSE <<nums[1]>> \o normalize_nums(Tail(nums))

\* the labels hold no word of SOFT_REMOVE_WORDS, no "|" and no repeated blanks
normalize_line_text(line) == [line EXCEPT !.nums = normalize_nums(line.nums)]

\* the labels of the model
Labels ==
    {"Pizza", "Pizza:", "Pizza qty", "Pizza: qty", "Naan", "A", "Payable",
     "Table", "Item Qty Amount", "Sub Total", "Grand Total", "Total",
     "Total Amount Payable", "Net Amount", "CGST", "Service Charge",
     "Round Off", "GST:27AABCC1926B1Z8", "CGST @2.5%", "Grand Total Rounded",
     "Total Quantity", "GST No:", "Service Charge @10%", "VAT on Food",
     "Service Tax"}
\* TABLE_HEADER_PATTERN
TableHeaderLabels == {"Item Qty Amount"}
\* TABLE_END_PATTERN
TableEndLabels ==
    {"Grand Total", "Total Amount Payable", "Net Amount", "Service Charge",
     "Round Off", "Grand Total Rounded", "Total Quantity",
     "Service Charge @10%", "VAT on Food", "Service Tax"}
\* a word of HARD_SKIP_WORDS occurs in the line
HardSkipLabels ==
    {"Sub Total", "Grand Total", "Total", "Total Amount Payable", "CGST",
     "Service Charge", "GST:27AABCC1926B1Z8", "CGST @2.5%",
     "Grand Total Rounded", "Total Quantity", "GST No:",
     "Service Charge @10%", "VAT on Food", "Service Tax"}
\* NON_ITEM_PATTERN
NonItemLabels == {"Table", "GST No:"}
\* the label fits the name group [A-Za-z][A-Za-z0-9 &()/+-]* of the structured patterns
NameGroupLabels ==
    {"Pizza", "Pizza qty", "Naan", "A", "Payable", "Table",
     "Item Qty Amount", "Sub Total", "Grand Total", "Total",
     "Total Amount Payable", "Net Amount", "CGST", "Service Charge",
     "Round Off", "Grand Total Rounded", "Total Quantity", "VAT on Food",
     "Service Tax"}
\* the label ends with qty or quantity, so that QTY_PATTERN reads the first token
QtyWordLabels == {"Pizza qty", "Pizza: qty", "Total Quantity"}
\* "total", "payable" or "amount" occurs in the line
TotalLikeLabels ==
    {"Payable", "Item Qty Amount", "Sub Total", "Grand Total", "Total",
     "Total Amount Payable", "Net Amount", "Grand Total Rounded",
     "Total Quantity"}
\* gst followed by an identifier of 10 or more letters and digits
TaxIdPatternLabels == {"GST:27AABCC1926B1Z8"}
\* "total quantity" occurs in the line
TotalQuantityLabels == {"Total Quantity"}
\* "round" occurs in the line
RoundLabels == {"Round Off", "Grand Total Rounded"}
\* a subtotal keyword occurs in the line
SubtotalLabels == {"Sub Total", "Total Amount Payable"}
\* a grand-total keyword occurs in the line
GrandTotalLabels ==
    {"Grand Total", "Total Amount Payable", "Net Amount",
     "Grand Total Rounded"}
\* a round-off keyword occurs in the line
RoundOffLabels == {"Round Off"}
\* a tax keyword occurs in the line
TaxLabels ==
    {"CGST", "GST:27AABCC1926B1Z8", "CGST @2.5%", "GST No:", "VAT on Food",
     "Service Tax"}
\* "tax id", "gstin" or "tin" occurs in the line
TaxIdWordLabels == {}
\* "vat on food", "vat on beverages" or " paid" occurs in the line
TaxFooterLabels == {"VAT on Food"}
\* "service charge" or "service tax" occurs in the line
ServiceLabels == {"Service Charge", "Service Charge @10%", "Service Tax"}
\* "service charge" occurs in the line
ServiceChargeLabels == {"Service Charge", "Service Charge @10%"}
\* the label ends with "%" (without tokens the line has no trailing amount)
PercentLabels == {"CGST @2.5%", "Service Charge @10%"}
\* clean_name of a label that no number follows
clean_label(label) ==
    CASE label = "Pizza:" -> "Pizza"
      [] label = "Pizza: qty" -> "Pizza qty"
      [] label = "GST:27AABCC1926B1Z8" -> "GST AABCC B Z"
      [] label = "CGST @2.5%" -> "CGST"
      [] label = "GST No:" -> "GST No"
      [] label = "Service Charge @10%" -> "Service Charge"
      [] OTHER -> label
\* clean_name of a label and the count numbers after it: the numbers go, and
\* so does the qty word in front of a number
clean_numbered_label(label) ==
    CASE label = "Pizza qty" -> "Pizza"
      [] label = "Pizza: qty" -> "Pizza"
      [] label = "Total Quantity" -> "Total"
      [] OTHER -> clean_label(label)
clean_name(label, count) ==
    IF count > 0 THEN clean_numbered_label(label) ELSE clean_label(label)
\* NON_MENU_ITEM_NAME_PATTERN on the cleaned names and on the names a
\* secondary source may return ("PIZZA!", "Lassi", "X", "--")
NonMenuNames ==
    {"CGST", "GST AABCC B Z", "GST No", "Grand Total", "Grand Total Rounded",
     "Net Amount", "Payable", "Round Off", "Service Charge", "Service Tax",
     "Sub Total", "Total", "Total Amount Payable", "Total Quantity",
     "VAT on Food"}
NON_MENU_ITEM_NAME_PATTERN(name) == name \in NonMenuNames
\* item_name_key: the name in lower case, without punctuation
item_name_key(name) ==
    CASE name \in {"--"} -> ""
      [] name \in {"A"} -> "a"
      [] name \in {"CGST"} -> "cgst"
      [] name \in {"Grand Total"} -> "grand total"
      [] name \in {"Grand Total Rounded"} -> "grand total rounded"
      [] name \in {"GST AABCC B Z"} -> "gst aabcc b z"
      [] name \in {"GST No"} -> "gst no"
      [] name \in {"Item Qty Amount"} -> "item qty amount"
      [] name \in {"Lassi"} -> "lassi"
      [] name \in {"Naan"} -> "naan"
      [] name \in {"Net Amount"} -> "net amount"
      [] name \in {"Payable"} -> "payable"
      [] name \in {"Pizza", "PIZZA!"} -> "pizza"
      [] name \in {"Pizza qty"} -> "pizza qty"
      [] name \in {"Round Off"} -> "round off"
      [] name \in {"Service Charge"} -> "service charge"
      [] name \in {"Service Tax"} -> "service tax"
      [] name \in {"Sub Total"} -> "sub total"
      [] name \in {"Table"} -> "table"
      [] name \in {"Total"} -> "total"
      [] name \in {"Total Amount Payable"} -> "total amount payable"
      [] name \in {"Total Quantity"} -> "total quantity"
      [] name \in {"VAT on Food"} -> "vat on food"
      [] name \in {"X"} -> "x"
\* parse_money_values of the label alone (digits inside the label)
label_money_values(label) ==
    CASE label = "GST:27AABCC1926B1Z8" -> <<2700, 192600, 100, 800>>
      [] label = "CGST @2.5%" -> <<200, 500>>
      [] label = "Service Charge @10%" -> <<1000>>
      [] OTHER -> <<>>
\* parse_last_signed_amount of the label alone
label_last_signed(label) ==
    CASE label = "GST:27AABCC1926B1Z8" -> Some(800)
      [] label = "CGST @2.5%" -> Some(250)
      [] label = "Service Charge @10%" -> Some(1000)
      [] OTHER -> None
\* the labels in which the lowercased name occurs (build_needs_review)
labels_holding(name) ==
    CASE name = "A" -> {"Pizza", "Pizza:", "Pizza qty", "Pizza: qty", "Naan", "A", "Payable", "Table", "Item Qty Amount", "Sub Total", "Grand Total", "Total", "Total Amount Payable", "Net Amount", "Service Charge", "GST:27AABCC1926B1Z8", "Grand Total Rounded", "Total Quantity", "Service Charge @10%", "VAT on Food", "Service Tax"}
      [] name = "CGST" -> {"CGST", "CGST @2.5%"}
      [] name = "GST AABCC B Z" -> {}
      [] name = "GST No" -> {"GST No:"}
      [] name = "Grand Total" -> {"Grand Total", "Grand Total Rounded"}
      [] name = "Grand Total Rounded" -> {"Grand Total Rounded"}
      [] name = "Item Qty Amount" -> {"Item Qty Amount"}
      [] name = "Naan" -> {"Naan"}
      [] name = "Net Amount" -> {"Net Amount"}
      [] name = "Payable" -> {"Payable", "Total Amount Payable"}
      [] name = "Pizza" -> {"Pizza", "Pizza:", "Pizza qty", "Pizza: qty"}
      [] name = "Pizza qty" -> {"Pizza qty"}
      [] name = "Round Off" -> {"Round Off"}
      [] name = "Service Charge" -> {"Service Charge", "Service Charge @10%"}
      [] name = "Service Tax" -> {"Service Tax"}
      [] name = "Sub Total" -> {"Sub Total"}
      [] name = "Table" -> {"Table"}
      [] name = "Total" -> {"Sub Total", "Grand Total", "Total", "Total Amount Payable", "Grand Total Rounded", "Total Quantity"}
      [] name = "Total Amount Payable" -> {"Total Amount Payable"}
      [] name = "Total Quantity" -> {"Total Quantity"}
      [] name = "VAT on Food" -> {"VAT on Food"}
      [] OTHER -> {}
TABLE_HEADER_PATTERN(line) == line.label \in TableHeaderLabels
TABLE_END_PATTERN(line) == line.label \in TableEndLabels
NON_ITEM_PATTERN(line) == line.label \in NonItemLabels
QTY_PATTERN(line) == line.label \in QtyWordLabels /\ line.nums # <<>>

should_skip_line(line, in_item_table) ==
    \/ line.label \in HardSkipLabels
    \/ ~in_item_table /\ NON_ITEM_PATTERN(line)


\* parse_money_values of one token: CURRENCY_PATTERN reads a token of three
\* decimals as its whole part and then its three decimals as a whole number
token_money_values(t) ==
    LET keep(v) == IF 0 < v /\ v < 10000000 THEN <<v>> ELSE <<>>
    IN  IF t.dec = 3
        THEN keep(100 * (t.c \div 100)) \o keep(1000 * (t.c % 100) + 100 * Mils(t))
        ELSE keep(Abs(t.c))

RECURSIVE tokens_money_values(_)
tokens_money_values(nums) ==
    IF nums = <<>> THEN <<>>
    ELSE token_money_values(nums[1]) \o tokens_money_values(Tail(nums))

parse_money_values(line) == label_money_values(line.label) \o tokens_money_values(line.nums)

\* the standalone numbers of infer_quantity: tokens that are no money value
RECURSIVE standalone_quantity(_, _)
standalone_quantity(nums, money_values) ==
    IF nums = <<>> THEN 100
    ELSE IF /\ \A i \in 1 .. Len(money_values) : money_values[i] # nums[1].c
            /\ 0 < nums[1].c /\ nums[1].c <= 2000 /\ nums[1].c % 100 = 0
            /\ Mils(nums[1]) = 0
         THEN nums[1].c
         ELSE standalone_quantity(Tail(nums), money_values)

\* infer_quantity: the number after "qty", else a standalone whole number up
\* to 20, else 1 (the lines hold no "x" multiplier)
infer_quantity(line, money_values) ==
    IF QTY_PATTERN(line) THEN Abs(line.nums[1].c)
    ELSE standalone_quantity(line.nums, money_values)

\* the numeric groups of the structured patterns
FitsAmount(t) == t.dec \in {0, 2} /\ t.c >= 0
FitsQty(t) == t.dec \in {0, 2, 3} /\ t.c >= 0

\* the name group of a structured pattern with k numeric groups: the label and
\* every token before the last k, which therefore hold no point; at least
\* two characters of the name group's alphabet
NameGroup(line, k) ==
    /\ line.label \in NameGroupLabels
    /\ Len(line.nums) >= k
    /\ \A i \in 1 .. Len(line.nums) - k : line.nums[i].dec = 0
    /\ (Len(line.label) >= 2 \/ Len(line.nums) > k)

\* the j-th of the last k tokens
Group(line, k, j) == line.nums[Len(line.nums) - k + j]

STRUCTURED_ITEM_QTY_FIRST_PATTERN(line) ==
    /\ NameGroup(line, 3)
    /\ FitsQty(Group(line, 3, 1))
    /\ FitsAmount(Group(line, 3, 2))
    /\ FitsAmount(Group(line, 3, 3))

STRUCTURED_ITEM_PRICE_FIRST_PATTERN(line) ==
    /\ NameGroup(line, 3)
    /\ FitsAmount(Group(line, 3, 1))
    /\ FitsQty(Group(line, 3, 2))
    /\ FitsAmount(Group(line, 3, 3))

STRUCTURED_ITEM_QTY_TOTAL_PATTERN(line) ==
    /\ NameGroup(line, 2)
    /\ FitsQty(Group(line, 2, 1))
    /\ FitsAmount(Group(line, 2, 2))

STRUCTURED_ITEM_UNIT_TOTAL_PATTERN(line) ==
    /\ NameGroup(line, 2)
    /\ FitsAmount(Group(line, 2, 1))
    /\ FitsAmount(Group(line, 2, 2))

structured_mode(line) ==
    IF STRUCTURED_ITEM_QTY_FIRST_PATTERN(line) THEN "qty_first"
    ELSE IF STRUCTURED_ITEM_PRICE_FIRST_PATTERN(line) THEN "price_first"
    ELSE IF STRUCTURED_ITEM_QTY_TOTAL_PATTERN(line) THEN "qty_total"
    ELSE IF STRUCTURED_ITEM_UNIT_TOTAL_PATTERN(line) THEN "unit_total"
    ELSE "none"

\* abs(x - total) <= max(1.0, 0.01 * max(1.0, total)), amounts in cents
near_total(x, total) == Abs(x - total) <= Max(100, Max(100, total) \div 100)

\* infer_glued_qty_unit, first loop: the first qty_len digits as the quantity
glued_split(g_int, qty_len, total) ==
    LET p == Pow10(Digits(g_int) - qty_len)
        qty == g_int \div p
        unit == g_int % p
    IN  IF qty <= 12 /\ unit > 0 /\ near_total(qty * unit * 100, total)
        THEN Some([quantity |-> 100 * qty, unit_price |-> 100 * unit])
        ELSE None

\* infer_glued_qty_unit, second case: the digits of the total at the end
glued_suffix(g_int, total) ==
    LET t_int == RoundHalfEven(total)
        p == Pow10(Digits(t_int))
        qty == g_int \div p
    IN  IF /\ t_int > 0 /\ Digits(g_int) > Digits(t_int) /\ g_int % p = t_int
           /\ 0 < qty /\ qty <= 12 /\ near_total(qty * t_int * 100, total)
        THEN Some([quantity |-> 100 * qty, unit_price |-> 100 * t_int])
        ELSE None

infer_glued_qty_unit(glued_value, total_value) ==
    LET g_int == RoundHalfEven(glued_value)
    IN  IF Digits(g_int) < 3 THEN None
        ELSE IF ~IsNone(glued_split(g_int, 1, total_value))
             THEN glued_split(g_int, 1, total_value)
        ELSE IF ~IsNone(glued_split(g_int, 2, total_value))
             THEN glued_split(g_int, 2, total_value)
        ELSE glued_suffix(g_int, total_value)

\* the quantity taken from inferred_qty = cost / unit_price: its nearest whole
\* number when it is at least 0.999, within 0.06 of it and at most 20; else 1
inferred_quantity(cost, unit_price) ==
    LET r == (2 * cost + unit_price) \div (2 * unit_price)
    IN  IF /\ 1000 * cost >= 999 * unit_price
           /\ 100 * Abs(cost - r * unit_price) < 6 * unit_price
           /\ cost <= 20 * unit_price
        THEN 100 * r
        ELSE 100

\* quantity and unit_price of a structured row, None when the row is refused
structured_qty_unit(line, mode, cost, tieUp) ==
    IF mode \in {"qty_first", "price_first"}
    THEN LET qty == IF mode = "qty_first" THEN Group(line, 3, 1) ELSE Group(line, 3, 2)
             unit == IF mode = "qty_first" THEN Group(line, 3, 2) ELSE Group(line, 3, 1)
         IN  IF qty.c <= 0 /\ Mils(qty) = 0 THEN None
             ELSE Some([quantity |-> qty.c, unit_price |-> unit.c])
    ELSE IF mode = "qty_total"
    THEN LET quantity_raw == Group(line, 2, 1).c
         IN  IF quantity_raw <= 0 /\ Mils(Group(line, 2, 1)) = 0 THEN None
             ELSE IF quantity_raw > 2500 \/ (quantity_raw = 2500 /\ Mils(Group(line, 2, 1)) > 0)
             THEN LET unit == Group(line, 2, 1).c
                  IN  IF ~STRUCTURED_ITEM_UNIT_TOTAL_PATTERN(line) THEN None
                      ELSE IF unit <= 0 THEN None
                      ELSE IF ~IsNone(infer_glued_qty_unit(unit, cost))
                           THEN infer_glued_qty_unit(unit, cost)
                      ELSE Some([quantity |-> inferred_quantity(cost, unit),
                                 unit_price |-> unit])
             ELSE Some([quantity |-> quantity_raw,
                        unit_price |-> RoundDiv(100 * cost, quantity_raw, tieUp)])
    \* mode unit_total (never selected: the qty-total pattern matches every
    \* line the unit-total pattern matches)
    ELSE LET unit == Group(line, 2, 1).c
             glued == infer_glued_qty_unit(unit, cost)
             unit_price == IF unit <= cost THEN unit
                           ELSE IF ~IsNone(glued) THEN Val(glued).unit_price
                           ELSE cost
         IN  IF unit <= 0 \/ unit_price <= 0 THEN None
             ELSE Some([quantity |-> inferred_quantity(cost, unit_price),
                        unit_price |-> unit_price])

parse_structured_item(line, tieUp) ==
    LET mode == structured_mode(line)
        k == IF mode \in {"qty_first", "price_first"} THEN 3 ELSE 2
        name == clean_name(line.label, Len(line.nums) - k)
        cost == Group(line, k, k).c
        qu == structured_qty_unit(line, mode, cost, tieUp)
    IN  IF mode = "none" THEN None
        ELSE IF Len(name) < 2 THEN None
        ELSE IF IsNone(qu) THEN None
        ELSE IF cost < 50 THEN None
        ELSE IF Val(qu).quantity > 2500 THEN None
        ELSE IF Val(qu).quantity > 1500 /\ Val(qu).unit_price < 1000 THEN None
        ELSE Some([name |-> name, quantity |-> Val(qu).quantity,
                   unit_price |-> Val(qu).unit_price, cost |-> cost])

\* number of tokens printed with exactly two decimals (decimal_tokens)
RECURSIVE count_decimal_tokens(_)
count_decimal_tokens(nums) ==
    IF nums = <<>> THEN 0
    ELSE (IF nums[1].dec = 2 THEN 1 ELSE 0) + count_decimal_tokens(Tail(nums))

\* the generic rule for a line no structured pattern accepts: the last money
\* value is the cost, the one before it the unit price, which is recomputed
\* from the cost when it disagrees with it
generic_item(line, require_table_section, tieUp) ==
    LET money_values == parse_money_values(line)
        n == Len(money_values)
        cost == money_values[n]
        inferred == infer_quantity(line, money_values)
        quantity == IF inferred <= 0 THEN 100 ELSE inferred
        listed == money_values[n - 1]
        unit_price == IF Abs(listed * quantity - 100 * cost) > Max(10000, 8 * cost)
                      THEN RoundDiv(100 * cost, quantity, tieUp)
                      ELSE listed
        name == clean_name(line.label, Len(line.nums))
    IN  IF ~require_table_section /\ count_decimal_tokens(line.nums) < 2 THEN None
        ELSE IF n < 2 THEN None
        ELSE IF cost < 50 THEN None
        ELSE IF quantity > 2500 \/ (quantity > 1500 /\ unit_price < 1000) THEN None
        ELSE IF Len(name) < 2 THEN None
        ELSE Some([name |-> name, quantity |-> quantity,
                   unit_price |-> unit_price, cost |-> cost])

\* the locals of _extract_items_from_lines when a pass starts
PassStart == [inside_item_table |-> FALSE, saw_table_header |-> FALSE, items |-> <<>>]

\* extract_line without the skip of the lines outside the item table
extract_line_outside_table(st, raw_line, require_table_section, tieUp) ==
    LET normalized == normalize_line_text(raw_line)
        structured_item == parse_structured_item(normalized, tieUp)
        generic == generic_item(normalized, require_table_section, tieUp)
    IN  IF TABLE_HEADER_PATTERN(normalized)
        THEN [st EXCEPT !.inside_item_table = TRUE, !.saw_table_header = TRUE]
        ELSE IF TABLE_END_PATTERN(normalized)
        THEN [st EXCEPT !.inside_item_table = FALSE]
        ELSE IF should_skip_line(normalized, st.inside_item_table) THEN st
        ELSE IF ~IsNone(structured_item)
        THEN [st EXCEPT !.items = Append(@, Val(structured_item))]
        ELSE IF ~IsNone(generic)
        THEN [st EXCEPT !.items = Append(@, Val(generic))]
        ELSE st

\* one iteration of the loop of _extract_items_from_lines
extract_line(st, raw_line, require_table_section, tieUp) ==
    LET normalized == normalize_line_text(raw_line)
        structured_item == parse_structured_item(normalized, tieUp)
        generic == generic_item(normalized, require_table_section, tieUp)
    IN  IF TABLE_HEADER_PATTERN(normalized)
        THEN [st EXCEPT !.inside_item_table = TRUE, !.saw_table_header = TRUE]
        ELSE IF TABLE_END_PATTERN(normalized)
        THEN [st EXCEPT !.inside_item_table = FALSE]
        ELSE IF require_table_section /\ ~st.inside_item_table THEN st
        ELSE IF should_skip_line(normalized, st.inside_item_table) THEN st
        ELSE IF ~IsNone(structured_item)
        THEN [st EXCEPT !.items = Append(@, Val(structured_item))]
        ELSE IF ~IsNone(generic)
        THEN [st EXCEPT !.items = Append(@, Val(generic))]
        ELSE st

RECURSIVE extract_loop(_, _, _, _)
extract_loop(st, lines, require_table_section, tieUp) ==
    IF lines = <<>> THEN st
    ELSE With(extract_line(st, lines[1], require_table_section, tieUp),
              LAMBDA next : extract_loop(next, Tail(lines), require_table_section, tieUp))

\* what a pass returns from the locals it ends with
pass_result(st, require_table_section) ==
    IF require_table_section /\ ~st.saw_table_header THEN <<>> ELSE st.items

_extract_items_from_lines(lines, require_table_section, tieUp) ==
    pass_result(extract_loop(PassStart, lines, require_table_section, tieUp),
                require_table_section)

\* the items of a pass without the filter on their names
menu_items_unfiltered(its) == its

\* the items whose name does not match NON_MENU_ITEM_NAME_PATTERN
menu_items(its) ==
    LET menu(item) == ~NON_MENU_ITEM_NAME_PATTERN(item.name) IN SelectSeq(its, menu)

extract_items_from_lines(lines, tieUp) ==
    With(menu_items(_extract_items_from_lines(lines, TRUE, tieUp)),
         LAMBDA strict_items :
            IF strict_items # <<>> THEN strict_items
            ELSE menu_items(_extract_items_from_lines(lines, FALSE, tieUp)))

\* has_money of build_needs_review: a number with decimals occurs in the line
has_money(line) ==
    \/ line.label \in PercentLabels
    \/ \E i \in 1 .. Len(line.nums) : line.nums[i].dec > 0

RECURSIVE unparsed_lines(_, _)
unparsed_lines(lines, its) ==
    IF lines = <<>> THEN <<>>
    ELSE (IF /\ has_money(normalize_line_text(lines[1]))
             /\ ~should_skip_line(normalize_line_text(lines[1]), TRUE)
             /\ \A i \in 1 .. Len(its) : lines[1].label \notin labels_holding(its[i].name)
          THEN <<[line |-> lines[1], reason |-> "unparsed_line"]>>
          ELSE <<>>)
         \o unparsed_lines(Tail(lines), its)

RECURSIVE suspicious_quantities(_)
suspicious_quantities(its) ==
    IF its = <<>> THEN <<>>
    ELSE (IF its[1].quantity > 1200 /\ its[1].unit_price < 1500
          THEN <<[line |-> Line(its[1].name, <<>>), reason |-> "suspicious_quantity"]>>
          ELSE <<>>)
         \o suspicious_quantities(Tail(its))

build_needs_review(lines, its) ==
    With(unparsed_lines(lines, its) \o suspicious_quantities(its),
         LAMBDA all : SubSeq(all, 1, Min(20, Len(all))))

(***************************************************************************)
(* detect_bill_totals: subtotal, grand total, taxes, service charge and    *)
(* round-off of the raw lines of a receipt.                                *)
(***************************************************************************)
\* lines this close to the end of the receipt are the bottom of the waterfall
BottomWindow == 8

Last(s) == s[Len(s)]

\* parse_trailing_amount: the number that ends the line; of a token of three
\* decimals the pattern takes the three decimals as a whole number
parse_trailing_amount(line) ==
    IF line.nums = <<>> THEN None
    ELSE IF Last(line.nums).dec = 3
    THEN Some(1000 * (Last(line.nums).c % 100) + 100 * Mils(Last(line.nums)))
    ELSE Some(Last(line.nums).c)

\* parse_last_signed_amount: the last number of the line with its sign
parse_last_signed_amount(line) ==
    IF line.nums = <<>> THEN label_last_signed(line.label)
    ELSE Some(Last(line.nums).c)

\* amount of a line: the trailing amount, else the last money value
line_amount(line) ==
    IF ~IsNone(parse_trailing_amount(line)) THEN parse_trailing_amount(line)
    ELSE IF parse_money_values(line) # <<>> THEN Some(Last(parse_money_values(line)))
    ELSE None

TotalsStart ==
    [subtotal_candidates |-> <<>>, grand_total_candidates |-> <<>>,
     total_candidates |-> <<>>, tax_total |-> 0, service_charge |-> 0,
     round_off |-> 0, tax_breakdown |-> <<>>]

\* the total-like candidate of a line, recorded before the line is classed
with_total_candidate(acc, idx, line) ==
    IF /\ ~IsNone(line_amount(line))
       /\ line.label \in TotalLikeLabels
       /\ line.label \notin TaxIdPatternLabels
       /\ line.label \notin TotalQuantityLabels
    THEN [acc EXCEPT !.total_candidates =
                Append(@, [idx |-> idx, amount |-> Val(line_amount(line))])]
    ELSE acc

\* the tax branch of the loop
tax_line(acc, line) ==
    IF \/ line.label \in TaxIdWordLabels
       \/ line.label \in TaxIdPatternLabels
       \/ line.label \in TaxFooterLabels
       \/ IsNone(line_amount(line))
       \/ IsNone(parse_trailing_amount(line))
    THEN acc
    ELSE LET amount == Val(parse_trailing_amount(line))
         IN  [acc EXCEPT
                !.tax_total = @ + amount,
                !.tax_breakdown = Append(@, [name |-> line, amount |-> amount]),
                !.service_charge = IF line.label \in ServiceLabels THEN @ + amount ELSE @]

\* one iteration of the loop of detect_bill_totals (idx counts from 0)
detect_line(acc0, idx, line) ==
    LET acc == with_total_candidate(acc0, idx, line)
        amount == line_amount(line)
    IN  IF IsNone(amount) /\ line.label \notin RoundLabels THEN acc
        ELSE IF line.label \in SubtotalLabels
        THEN [acc EXCEPT !.subtotal_candidates = Append(@, amount)]
        ELSE IF line.label \in GrandTotalLabels
        THEN [acc EXCEPT !.grand_total_candidates = Append(@, amount)]
        ELSE IF line.label \in RoundOffLabels
        THEN IF IsNone(parse_last_signed_amount(line)) THEN acc
             ELSE [acc EXCEPT !.round_off = @ + Val(parse_last_signed_amount(line))]
        ELSE IF line.label \in TaxLabels THEN tax_line(acc, line)
        ELSE IF line.label \in ServiceChargeLabels /\ ~IsNone(amount)
        THEN [acc EXCEPT
                !.service_charge = @ + Val(amount),
                !.tax_breakdown = Append(@, [name |-> line, amount |-> Val(amount)])]
        ELSE acc

RECURSIVE detect_loop(_, _, _)
detect_loop(acc, idx, raw_lines) ==
    IF idx >= Len(raw_lines) THEN acc
    ELSE With(detect_line(acc, idx, raw_lines[idx + 1]),
              LAMBDA next : detect_loop(next, idx + 1, raw_lines))

RECURSIVE MaxSeq(_)
MaxSeq(s) == IF Len(s) = 1 THEN s[1] ELSE Max(s[1], MaxSeq(Tail(s)))

Amounts(cands) == [i \in 1 .. Len(cands) |-> cands[i].amount]

\* the waterfall: the largest total-like amount at the bottom of the receipt
waterfall_pool(acc, line_count, subtotal) ==
    LET bottom_cutoff == Max(0, line_count - BottomWindow)
        at_bottom(c) == c.idx >= bottom_cutoff
        bottom_amounts == Amounts(SelectSeq(acc.total_candidates, at_bottom))
        pool == IF bottom_amounts # <<>> THEN bottom_amounts
                ELSE Amounts(acc.total_candidates)
        not_below(p) == p >= Val(subtotal)
    IN  IF ~IsNone(subtotal) /\ SelectSeq(pool, not_below) # <<>>
        THEN SelectSeq(pool, not_below)
        ELSE pool

\* detected_grand with a derivation that leaves the round-off out of the sum
detected_grand_without_round_off(acc, line_count, subtotal) ==
    LET explicit == IF acc.grand_total_candidates # <<>>
                    THEN Last(acc.grand_total_candidates) ELSE None
        fallen == IF IsNone(explicit) /\ Len(acc.total_candidates) >= 2
                  THEN Some(MaxSeq(waterfall_pool(acc, line_count, subtotal)))
                  ELSE explicit
    IN  IF /\ IsNone(fallen) /\ ~IsNone(subtotal)
           /\ (acc.tax_total > 0 \/ acc.service_charge > 0 \/ Abs(acc.round_off) > 0)
        THEN Some(Val(subtotal) + acc.tax_total + acc.service_charge)
        ELSE fallen

\* the grand total after the explicit lines, the waterfall and the derivation
detected_grand(acc, line_count, subtotal) ==
    LET explicit == IF acc.grand_total_candidates # <<>>
                    THEN Last(acc.grand_total_candidates) ELSE None
        fallen == IF IsNone(explicit) /\ Len(acc.total_candidates) >= 2
                  THEN Some(MaxSeq(waterfall_pool(acc, line_count, subtotal)))
                  ELSE explicit
    IN  IF /\ IsNone(fallen) /\ ~IsNone(subtotal)
           /\ (acc.tax_total > 0 \/ acc.service_charge > 0 \/ Abs(acc.round_off) > 0)
        THEN Some(Val(subtotal) + acc.tax_total + acc.service_charge + acc.round_off)
        ELSE fallen

\* the result of detect_bill_totals from the accumulators the loop ends with
detected_totals(acc, line_count) ==
    LET subtotal == IF acc.subtotal_candidates # <<>>
                    THEN Last(acc.subtotal_candidates) ELSE None
    IN  [detected_subtotal |-> subtotal,
         detected_grand_total |-> detected_grand(acc, line_count, subtotal),
         detected_tax_total |-> IF acc.tax_total > 0 THEN Some(acc.tax_total) ELSE None,
         detected_service_charge |->
            IF acc.service_charge > 0 THEN Some(acc.service_charge) ELSE None,
         detected_round_off |->
            IF Abs(acc.round_off) > 0 THEN Some(acc.round_off) ELSE None,
         detected_tax_breakdown |-> acc.tax_breakdown]

detect_bill_totals(raw_lines) ==
    With(detect_loop(TotalsStart, 0, raw_lines),
         LAMBDA acc : detected_totals(acc, Len(raw_lines)))

(***************************************************************************)
(* POST /scan-bill: the primary extraction, the arbitration with the       *)
(* secondary source, and the reconciliation with the detected totals.      *)
(* Scores are held in thousandths.  The text of a review entry is held as  *)
(* a line.  The category fields enrich_items_with_category adds to every   *)
(* item are left out.                                                      *)
(***************************************************************************)
Review(line, reason) == [line |-> line, reason |-> reason]

\* run_paddle_pipeline on the lines the OCR engine found (none: unreadable)
run_paddle_pipeline(ocr_lines, tieUp) ==
    IF ocr_lines = <<>>
    THEN [items |-> <<>>,
          needs_review |-> <<Review(Line("", <<>>), "blank_or_unreadable")>>,
          raw_lines |-> <<>>]
    ELSE With(extract_items_from_lines(ocr_lines, tieUp),
              LAMBDA its : [items |-> its,
                            needs_review |-> build_needs_review(ocr_lines, its),
                            raw_lines |-> ocr_lines])

\* compute_quality_score with the penalty of the review entries added to the score
compute_quality_score_rewarding_reviews(its, needs_review) ==
    IF its = <<>> THEN 0
    ELSE LET score == 750 + (IF Len(its) >= 3 THEN 100 ELSE 0)
                          + (IF Len(its) >= 6 THEN 50 ELSE 0)
             penalty == Min(450, 60 * Len(needs_review))
         IN  Max(0, Min(1000, score + penalty))

\* the score in thousandths
compute_quality_score(its, needs_review) ==
    IF its = <<>> THEN 0
    ELSE LET score == 750 + (IF Len(its) >= 3 THEN 100 ELSE 0)
                          + (IF Len(its) >= 6 THEN 50 ELSE 0)
             penalty == Min(450, 60 * Len(needs_review))
         IN  Max(0, Min(1000, score - penalty))

\* merge_item without the test of the name key against the names seen
merge_item_without_seen(merged, item, tieUp) ==
    IF \/ Len(item.name) < 2
       \/ item_name_key(item.name) = ""
       \/ NON_MENU_ITEM_NAME_PATTERN(item.name)
       \/ item.quantity <= 0
       \/ item.cost <= 0
    THEN merged
    ELSE IF item.unit_price <= 0
    THEN Append(merged, [item EXCEPT
                            !.unit_price = RoundDiv(100 * item.cost, item.quantity, tieUp)])
    ELSE Append(merged, item)

\* one iteration of the loop of merge_unique_items
merge_item(merged, item, tieUp) ==
    IF \/ Len(item.name) < 2
       \/ item_name_key(item.name) = ""
       \/ \E i \in 1 .. Len(merged) : item_name_key(merged[i].name) = item_name_key(item.name)
       \/ NON_MENU_ITEM_NAME_PATTERN(item.name)
       \/ item.quantity <= 0
       \/ item.cost <= 0
    THEN merged
    ELSE IF item.unit_price <= 0
    THEN Append(merged, [item EXCEPT
                            !.unit_price = RoundDiv(100 * item.cost, item.quantity, tieUp)])
    ELSE Append(merged, item)

RECURSIVE merge_unique_items(_, _, _)
merge_unique_items(base_items, extra_items, tieUp) ==
    IF extra_items = <<>> THEN base_items
    ELSE With(merge_item(base_items, extra_items[1], tieUp),
              LAMBDA merged : merge_unique_items(merged, Tail(extra_items), tieUp))

\* the items call_gemini_fallback keeps of the payload
RECURSIVE normalized_items(_)
normalized_items(payload_items) ==
    IF payload_items = <<>> THEN <<>>
    ELSE (IF Len(payload_items[1].name) < 2 \/ payload_items[1].cost <= 0
          THEN <<>> ELSE <<payload_items[1]>>)
         \o normalized_items(Tail(payload_items))

\* what the call of the secondary source ends with
GeminiFailures == {"timeout", "transport_error", "malformed_payload"}

\* call_gemini_fallback: None without an API key and on every failure it
\* catches; "raises" is an exception that escapes it
call_gemini_fallback(gemini) ==
    IF gemini.kind = "no_api_key" THEN None
    ELSE IF gemini.kind \in GeminiFailures THEN None
    ELSE Some([items |-> normalized_items(gemini.items),
               needs_review |-> gemini.needs_review])

\* without the force flag: the thresholds alone decide
should_try_fallback_without_force(req, primary) ==
    /\ req.use_hybrid
    /\ \/ Len(primary.items) < 2
       \/ compute_quality_score(primary.items, primary.needs_review) < 520
       \/ Len(primary.needs_review) > Max(3, Len(primary.items))

should_try_fallback(req, primary) ==
    /\ req.use_hybrid
    /\ \/ req.force_fallback
       \/ Len(primary.items) < 2
       \/ compute_quality_score(primary.items, primary.needs_review) < 520
       \/ Len(primary.needs_review) > Max(3, Len(primary.items))

\* the locals of scan_bill when the arbitration starts
primary_result(primary) ==
    [items |-> primary.items, needs_review |-> primary.needs_review,
     source |-> "paddle",
     quality_score |-> compute_quality_score(primary.items, primary.needs_review),
     fallback_attempted |-> FALSE, fallback_error |-> None, merged_from_gemini |-> 0]

\* replacing only when the secondary score is strictly higher
take_gemini_if_better(kept, gemini, tieUp) ==
    LET gemini_score == compute_quality_score(gemini.items, gemini.needs_review)
        merge(merged) ==
            IF Len(merged) > Len(kept.items)
            THEN [kept EXCEPT !.items = merged,
                              !.merged_from_gemini = Len(merged) - Len(kept.items),
                              !.source = "hybrid_merged",
                              !.quality_score =
                                  compute_quality_score(merged, kept.needs_review)]
            ELSE kept
    IN  IF gemini_score > kept.quality_score
        THEN [kept EXCEPT !.items = gemini.items, !.needs_review = gemini.needs_review,
                          !.quality_score = gemini_score, !.source = "gemini_fallback"]
        ELSE With(merge_unique_items(kept.items, gemini.items, tieUp), merge)

\* what scan_bill does with a non-empty answer of the secondary source:
\* replace when its score is at least the primary score, merge otherwise
take_gemini(kept, gemini, tieUp) ==
    LET gemini_score == compute_quality_score(gemini.items, gemini.needs_review)
        merge(merged) ==
            IF Len(merged) > Len(kept.items)
            THEN [kept EXCEPT !.items = merged,
                              !.merged_from_gemini = Len(merged) - Len(kept.items),
                              !.source = "hybrid_merged",
                              !.quality_score =
                                  compute_quality_score(merged, kept.needs_review)]
            ELSE kept
    IN  IF gemini_score >= kept.quality_score
        THEN [kept EXCEPT !.items = gemini.items, !.needs_review = gemini.needs_review,
                          !.quality_score = gemini_score, !.source = "gemini_fallback"]
        ELSE With(merge_unique_items(kept.items, gemini.items, tieUp), merge)

\* without the try block around the call: the exception ends the scan with
\* the empty result of the outer handler
arbitrate_without_try(req, primary) ==
    LET kept == [primary_result(primary) EXCEPT !.fallback_attempted = TRUE]
        gemini == call_gemini_fallback(req.gemini)
    IN  IF ~should_try_fallback(req, primary) THEN primary_result(primary)
        ELSE IF req.gemini.kind = "raises"
        THEN [kept EXCEPT !.items = <<>>, !.needs_review = <<>>, !.source = "none",
                          !.fallback_error = Some("error")]
        ELSE IF IsNone(gemini) \/ Val(gemini).items = <<>> THEN kept
        ELSE take_gemini(kept, Val(gemini), req.tieUp)

\* the arbitration between the primary result and the secondary source; an
\* exception that escapes call_gemini_fallback is caught and recorded
arbitrate(req, primary) ==
    LET kept == [primary_result(primary) EXCEPT !.fallback_attempted = TRUE]
        gemini == call_gemini_fallback(req.gemini)
    IN  IF ~should_try_fallback(req, primary) THEN primary_result(primary)
        ELSE IF req.gemini.kind = "raises"
        THEN [kept EXCEPT !.fallback_error = Some("error")]
        ELSE IF IsNone(gemini) \/ Val(gemini).items = <<>> THEN kept
        ELSE take_gemini(kept, Val(gemini), req.tieUp)

\* the review entries of the reconciliation with the detected totals
reconciliation(computed_subtotal, detected) ==
    IF ~IsNone(detected.detected_subtotal)
    THEN IF 50 * Abs(computed_subtotal - Val(detected.detected_subtotal))
                > Max(10000, Max(100, Val(detected.detected_subtotal)))
         THEN <<Review(Line("Subtotal mismatch",
                            <<Tok(computed_subtotal, 2),
                              Tok(Val(detected.detected_subtotal), 2)>>),
                       "subtotal_mismatch")>>
         ELSE <<>>
    ELSE IF /\ ~IsNone(detected.detected_grand_total)
            /\ computed_subtotal > Val(detected.detected_grand_total) + 100
    THEN <<Review(Line("Parsed subtotal exceeds grand total",
                       <<Tok(computed_subtotal, 2),
                         Tok(Val(detected.detected_grand_total), 2)>>),
                  "total_sanity_check_failed")>>
    ELSE <<>>

Costs(its) == [i \in 1 .. Len(its) |-> its[i].cost]

\* the response of scan_bill to a decodable image, from the result of the
\* arbitration and the detected totals
scan_response_of(req, arb, detected) ==
    LET computed_subtotal == SumSeq(Costs(arb.items))
        needs_review == arb.needs_review \o reconciliation(computed_subtotal, detected)
    IN  [error |-> None,
         items |-> arb.items,
         needs_review |-> needs_review,
         source |-> arb.source,
         computed_subtotal |-> computed_subtotal,
         totals |-> Some(detected),
         confidence_summary |->
            Some([quality_score |-> arb.quality_score,
                  item_count |-> Len(arb.items),
                  needs_review_count |-> Len(needs_review),
                  fallback_attempted |-> arb.fallback_attempted,
                  force_fallback |-> req.force_fallback,
                  gemini_configured |-> req.gemini.kind # "no_api_key",
                  fallback_error |-> arb.fallback_error,
                  merged_from_gemini |-> arb.merged_from_gemini])]

\* the response of scan_bill, given what run_paddle_pipeline returned for
\* the image and what the arbitration made of it
scan_bill_response(req, primary, arb) ==
    IF ~req.image_valid
    THEN [error |-> Some("Invalid image"), items |-> <<>>, needs_review |-> <<>>,
          source |-> "none", computed_subtotal |-> 0, totals |-> None,
          confidence_summary |-> None]
    ELSE With(detect_bill_totals(primary.raw_lines),
              LAMBDA detected : scan_response_of(req, arb, detected))

(***************************************************************************)
(* The parts of the state a specification does not use stay as they are    *)
(* before the first request.                                               *)
(***************************************************************************)
NoTotals == [detected_subtotal |-> None, detected_grand_total |-> None]

NoLobby ==
    /\ items = <<>>
    /\ receipt_totals = NoTotals
    /\ participants = <<>>
    /\ joined = 0
    /\ claims = NoClaims
    /\ host_user_id = None
    /\ response = Reply("none", 0)
    /\ NoClaimCalls

NoExtraction ==
    /\ receipt_lines = <<>>
    /\ line_no = 0
    /\ strict_pass = TRUE
    /\ inside_item_table = FALSE
    /\ saw_table_header = FALSE
    /\ found_items = <<>>
    /\ extracted = None

NoDetection == bill_lines = <<>> /\ bill_totals = None

NoScan ==
    /\ scan_request = None
    /\ scan_primary = None
    /\ scan_arbitration = None
    /\ scan_response = None
    /\ gemini_calls = 0

(***************************************************************************)
(* The lobby: POST /lobby/create, then any sequence of requests.           *)
(***************************************************************************)
QtyValues == {k * Scale : k \in 1 .. MaxQty}

\* request quantities of a claim: a negative one, whole quantities, and
\* quantities one unit (1e-6) above a whole quantity
ClaimQuantities ==
    {0 - Scale, 0} \cup {k * Scale + d : k \in 1 .. MaxQty, d \in {0, 1}}

\* nobody, each possible user, and a user id that never joined
Actors == {None} \cup {Some(u) : u \in 1 .. MaxUsers + 1}

\* requests of item-update that change the quantity only, and invalid ones
QtyUpdateRequests ==
    [name_ok : {TRUE}, quantity : {Some(q) : q \in QtyValues}, unit_price : {None},
     cost : {None}, category : {None}]
    \cup
    {[name_ok |-> FALSE, quantity |-> None, unit_price |-> None, cost |-> None,
      category |-> None],
     [name_ok |-> TRUE, quantity |-> Some(0), unit_price |-> None, cost |-> None,
      category |-> None],
     [name_ok |-> TRUE, quantity |-> None, unit_price |-> None, cost |-> None,
      category |-> Some("spicy")]}

QtyAddRequests ==
    [name_ok : {TRUE}, quantity : QtyValues, unit_price : {200}, cost : {None},
     category : {None}]
    \cup
    {[name_ok |-> FALSE, quantity |-> Scale, unit_price |-> 200, cost |-> None,
      category |-> None],
     [name_ok |-> TRUE, quantity |-> 0, unit_price |-> 200, cost |-> None,
      category |-> None]}

\* the state after create_lobby
LobbyInit ==
    /\ items \in {<<>>} \cup
                 {<<normalize_lobby_item(p)>> :
                     p \in [quantity : {0} \cup QtyValues, unit_price : {0}, cost : {400}]}
    /\ receipt_totals = NoTotals
    /\ participants = <<>>
    /\ joined = 0
    /\ claims = NoClaims
    /\ host_user_id = None
    /\ response = Reply("create", 200)
    /\ NoClaimCalls

Join ==
    /\ \E pass_ok \in BOOLEAN : join_lobby(pass_ok, Len(participants) + 1)
    /\ UNCHANGED <<extractVars, totalsVars, scanVars, claimVars>>

\* a request with a wrong passcode is refused whatever else it holds
Claim ==
    /\ \/ \E user_id \in UserIds, item_id \in ItemIds, quantity \in ClaimQuantities :
            claim_item(TRUE, user_id, item_id, quantity)
       \/ claim_item(FALSE, 1, 1, Scale)
    /\ UNCHANGED <<extractVars, totalsVars, scanVars, claimVars>>

ItemUpdate ==
    /\ \/ \E actor \in Actors, item_id \in ItemIds, req \in QtyUpdateRequests :
            update_lobby_item(TRUE, actor, item_id, req, TRUE)
       \/ \E req \in QtyUpdateRequests : update_lobby_item(FALSE, Some(1), 1, req, TRUE)
    /\ UNCHANGED <<extractVars, totalsVars, scanVars, claimVars>>

ClaimReset ==
    /\ \/ \E actor \in Actors, item_id \in ItemIds,
          user_id \in {None} \cup {Some(u) : u \in UserIds} :
            reset_claim(TRUE, actor, item_id, user_id)
       \/ reset_claim(FALSE, Some(1), 1, None)
    /\ UNCHANGED <<extractVars, totalsVars, scanVars, claimVars>>

\* an item is added to a lobby that was created without items
ItemAdd ==
    /\ items = <<>>
    /\ \/ \E actor \in UserIds, req \in QtyAddRequests : add_lobby_item(TRUE, actor, req, TRUE)
       \/ \E req \in QtyAddRequests : add_lobby_item(FALSE, 1, req, TRUE)
    /\ UNCHANGED <<extractVars, totalsVars, scanVars, claimVars>>

Init == LobbyInit /\ NoExtraction /\ NoDetection /\ NoScan

Next ==
    \/ Join
    \/ Claim
    \/ ItemUpdate
    \/ ClaimReset
    \/ ItemAdd

Spec == Init /\ [][Next]_vars

(***************************************************************************)
(* The settlement of a lobby: receipts with their detected totals, joins   *)
(* in any fetch order, claims of whole quantities, and the summary.        *)
(***************************************************************************)
Item(quantity, cost) ==
    normalize_lobby_item([quantity |-> quantity, unit_price |-> 0, cost |-> cost])

Totals(subtotal, grand) == [detected_subtotal |-> subtotal, detected_grand_total |-> grand]

SettleReceipts ==
    {[items |-> <<Item(Scale, 600), Item(Scale, 400)>>, totals |-> t] :
        t \in {NoTotals, Totals(Some(1000), Some(1100)), Totals(None, Some(900)),
               Totals(Some(500), Some(600))}}
    \cup
    {[items |-> <<Item(MaxQty * Scale, 205)>>, totals |-> t] :
        t \in {NoTotals, Totals(Some(205), Some(226))}}
    \cup
    {[items |-> <<Item(MaxQty * Scale, 400), Item(Scale, 205)>>, totals |-> t] :
        t \in {NoTotals, Totals(Some(605), Some(612))}}
    \cup
    {[items |-> <<Item(Scale, 400), Item(MaxQty * Scale, 200)>>, totals |-> t] :
        t \in {Totals(Some(600), Some(602))}}

SettleInit ==
    /\ \E r \in SettleReceipts :
        /\ items = r.items
        /\ receipt_totals = r.totals
    /\ participants = <<>>
    /\ joined = 0
    /\ claims = NoClaims
    /\ host_user_id = None
    /\ response = Reply("create", 200)
    /\ NoClaimCalls
    /\ NoExtraction /\ NoDetection /\ NoScan

SettleJoin ==
    /\ \E pos \in 1 .. MaxUsers : join_lobby(TRUE, pos)
    /\ UNCHANGED <<extractVars, totalsVars, scanVars, claimVars>>

SettleClaim ==
    /\ \E user_id \in UserIds, item_id \in ItemIds, quantity \in {0} \cup QtyValues :
            claim_item(TRUE, user_id, item_id, quantity)
    /\ UNCHANGED <<extractVars, totalsVars, scanVars, claimVars>>

SettleSummary ==
    /\ \E tieUp \in BOOLEAN : lobby_summary(TRUE, tieUp)
    /\ UNCHANGED <<extractVars, totalsVars, scanVars, claimVars>>

SettleNext ==
    \/ SettleJoin
    \/ SettleClaim
    \/ SettleSummary

SpecSettle == SettleInit /\ [][SettleNext]_vars

(***************************************************************************)
(* The settlement of a lobby with additions: a receipt of scanned items    *)
(* with its detected totals, joins, items added by hand with or without a  *)
(* category, categories chosen by the host, and the summary.               *)
(***************************************************************************)
\* the items of the receipts below come from the scan; the later ones are added
ScannedReceiptItems == <<Item(Scale, 1000)>>

ScannedItems == Len(ScannedReceiptItems)

AdditionReceipts ==
    {[items |-> ScannedReceiptItems, totals |-> t] :
        t \in {NoTotals, Totals(Some(1000), Some(1100)), Totals(Some(1000), None),
               Totals(None, Some(1100)), Totals(Some(1000), Some(900))}}

AddRequests ==
    [name_ok : {TRUE}, quantity : {Scale}, unit_price : {200}, cost : {None},
     category : {None, Some("veg")}]

AdditionsInit ==
    /\ \E r \in AdditionReceipts :
        /\ items = r.items
        /\ receipt_totals = r.totals
    /\ participants = <<>>
    /\ joined = 0
    /\ claims = NoClaims
    /\ host_user_id = None
    /\ response = Reply("create", 200)
    /\ NoClaimCalls
    /\ NoExtraction /\ NoDetection /\ NoScan

AdditionsItemAdd ==
    /\ \E actor \in UserIds, req \in AddRequests : add_lobby_item(TRUE, actor, req, TRUE)
    /\ UNCHANGED <<extractVars, totalsVars, scanVars, claimVars>>

AdditionsItemCategory ==
    /\ \E actor \in UserIds, item_id \in ItemIds, category \in {"veg", "spicy"} :
            update_item_category(TRUE, Some(actor), item_id, category, "")
    /\ UNCHANGED <<extractVars, totalsVars, scanVars, claimVars>>

\* the host edits the cost of an item
CostUpdateRequests ==
    [name_ok : {TRUE}, quantity : {None}, unit_price : {None}, cost : {Some(300)},
     category : {None}]

AdditionsItemUpdate ==
    /\ \E actor \in UserIds, item_id \in ItemIds, req \in CostUpdateRequests :
            update_lobby_item(TRUE, Some(actor), item_id, req, TRUE)
    /\ UNCHANGED <<extractVars, totalsVars, scanVars, claimVars>>

AdditionsNext ==
    \/ SettleJoin
    \/ AdditionsItemAdd
    \/ AdditionsItemCategory
    \/ AdditionsItemUpdate
    \/ SettleSummary

SpecAdditions == AdditionsInit /\ [][AdditionsNext]_vars

(***************************************************************************)
(* Claim requests served side by side: each request of claim_item reads,   *)
(* checks and writes in steps of its own, on a lobby of one item whose     *)
(* participants join and claim whole quantities.                           *)
(***************************************************************************)
ClaimStepsInit ==
    /\ items \in {<<Item(q, 400)>> : q \in QtyValues}
    /\ receipt_totals = NoTotals
    /\ participants = <<>>
    /\ joined = 0
    /\ claims = NoClaims
    /\ host_user_id = None
    /\ response = Reply("create", 200)
    /\ NoClaimCalls
    /\ NoExtraction /\ NoDetection /\ NoScan

StepJoin ==
    /\ join_lobby(TRUE, Len(participants) + 1)
    /\ UNCHANGED <<extractVars, totalsVars, scanVars, claimVars>>

StepClaimRead ==
    /\ \E user_id \in UserIds, item_id \in ItemIds, quantity \in {0} \cup QtyValues :
            claim_item_read(TRUE, user_id, item_id, quantity)
    /\ UNCHANGED <<extractVars, totalsVars, scanVars>>

StepClaimCheck ==
    /\ \E user_id \in UserIds : claim_item_check(user_id)
    /\ UNCHANGED <<extractVars, totalsVars, scanVars>>

StepClaimWrite ==
    /\ \E user_id \in UserIds : claim_item_write(user_id)
    /\ UNCHANGED <<extractVars, totalsVars, scanVars>>

ClaimStepsNext ==
    \/ StepJoin
    \/ StepClaimRead
    \/ StepClaimCheck
    \/ StepClaimWrite

SpecClaimSteps == ClaimStepsInit /\ [][ClaimStepsNext]_vars

(***************************************************************************)
(* The extraction of the items of a receipt: extract_items_from_lines      *)
(* runs the strict pass over the lines and, when it finds no menu item,    *)
(* the fallback pass.                                                      *)
(***************************************************************************)
MaxLines == 3

ExtractLines ==
    { Line("Item Qty Amount", <<>>),
      Line("Grand Total", <<Tok(700, 2)>>),
      Line("Pizza", <<Tok(200, 0), Tok(100, 2), Tok(200, 2)>>),
      Line("Pizza", <<Tok(200, 0), Tok(100, 2), Tok(500, 2)>>),
      Line("Naan", <<Tok(100, 2), Tok(200, 3), Tok(200, 2)>>),
      Line("Naan", <<Tok(300, 0), Tok(100, 2)>>),
      Line("Pizza", <<Tok(214500, 2), Tok(29000, 2)>>),
      Line("Naan", <<Tok(111000, 2), Tok(11000, 2)>>),
      Line("Pizza", <<Tok(2600, 0), Tok(100, 2), Tok(2600, 2)>>),
      Line("Pizza: qty", <<Tok(300, 0), Tok(100, 2), Tok(500, 2)>>),
      Line("Payable", <<Tok(100, 0), Tok(500, 2)>>),
      Line("Table", <<Tok(200, 0), Tok(100, 2), Tok(200, 2)>>),
      Line("A", <<Tok(100, 0), Tok(500, 2)>>),
      Line("Naan", <<Tok(100, 0), Tok(40, 2)>>),
      Line("Pizza", <<TokMil(0, 4), Tok(100, 2), Tok(200, 2)>>) }

ExtractInit ==
    /\ receipt_lines \in UNION {[1 .. n -> ExtractLines] : n \in 1 .. MaxLines}
    /\ line_no = 1
    /\ strict_pass = TRUE
    /\ inside_item_table = PassStart.inside_item_table
    /\ saw_table_header = PassStart.saw_table_header
    /\ found_items = PassStart.items
    /\ extracted = None
    /\ NoLobby /\ NoDetection /\ NoScan

\* one iteration of the loop of the running pass
ExtractLine ==
    /\ IsNone(extracted)
    /\ line_no <= Len(receipt_lines)
    /\ \E tieUp \in BOOLEAN :
         LET st == extract_line([inside_item_table |-> inside_item_table,
                                 saw_table_header |-> saw_table_header,
                                 items |-> found_items],
                                receipt_lines[line_no], strict_pass, tieUp)
         IN  /\ inside_item_table' = st.inside_item_table
             /\ saw_table_header' = st.saw_table_header
             /\ found_items' = st.items
    /\ line_no' = line_no + 1
    /\ UNCHANGED <<receipt_lines, strict_pass, extracted>>
    /\ UNCHANGED <<lobbyVars, totalsVars, scanVars, claimVars>>

\* the strict pass ends without a menu item: the fallback pass starts
ExtractFallback ==
    /\ IsNone(extracted)
    /\ line_no > Len(receipt_lines)
    /\ strict_pass
    /\ menu_items(pass_result([inside_item_table |-> inside_item_table,
                               saw_table_header |-> saw_table_header,
                               items |-> found_items], TRUE)) = <<>>
    /\ strict_pass' = FALSE
    /\ line_no' = 1
    /\ inside_item_table' = PassStart.inside_item_table
    /\ saw_table_header' = PassStart.saw_table_header
    /\ found_items' = PassStart.items
    /\ UNCHANGED <<receipt_lines, extracted>>
    /\ UNCHANGED <<lobbyVars, totalsVars, scanVars, claimVars>>

\* a pass ends and extract_items_from_lines returns its menu items
ExtractReturn ==
    /\ IsNone(extracted)
    /\ line_no > Len(receipt_lines)
    /\ LET result == menu_items(pass_result([inside_item_table |-> inside_item_table,
                                             saw_table_header |-> saw_table_header,
                                             items |-> found_items], strict_pass))
       IN  /\ strict_pass => result # <<>>
           /\ extracted' = Some(result)
    /\ UNCHANGED <<receipt_lines, line_no, strict_pass, inside_item_table,
                   saw_table_header, found_items>>
    /\ UNCHANGED <<lobbyVars, totalsVars, scanVars, claimVars>>

ExtractNext ==
    \/ ExtractLine
    \/ ExtractFallback
    \/ ExtractReturn

SpecExtract == ExtractInit /\ [][ExtractNext]_vars

(***************************************************************************)
(* The detection of the totals of a receipt: detect_bill_totals on a few   *)
(* footer lines, with a block of item lines in front of them, between      *)
(* them or behind them, so that a footer line can lie outside the bottom   *)
(* window.                                                                 *)
(***************************************************************************)
MaxFooterLines == 3

FooterLines ==
    { Line("Sub Total", <<Tok(500, 2)>>),
      Line("Grand Total", <<Tok(600, 2)>>),
      Line("Grand Total", <<Tok(100, 2)>>),
      Line("Total", <<Tok(700, 2)>>),
      Line("Total", <<Tok(400, 2)>>),
      Line("Total Amount Payable", <<Tok(600, 2)>>),
      Line("Net Amount", <<Tok(550, 2)>>),
      Line("CGST", <<Tok(50, 2)>>),
      Line("Service Charge", <<Tok(25, 2)>>),
      Line("Round Off", <<Tok(-10, 2)>>),
      Line("GST:27AABCC1926B1Z8", <<>>),
      Line("CGST @2.5%", <<>>),
      Line("Grand Total Rounded", <<>>),
      Line("Total Quantity", <<Tok(200, 0)>>) }

ItemBlock(k) == [i \in 1 .. k |-> Line("Pizza", <<Tok(100, 2)>>)]

TotalsInit ==
    /\ \E n \in 1 .. MaxFooterLines :
         \E footer \in [1 .. n -> FooterLines], p \in 0 .. n, k \in {0, BottomWindow} :
            bill_lines = SubSeq(footer, 1, p) \o ItemBlock(k) \o SubSeq(footer, p + 1, n)
    /\ bill_totals = None
    /\ NoLobby /\ NoExtraction /\ NoScan

DetectTotals ==
    /\ IsNone(bill_totals)
    /\ bill_totals' = Some(detect_bill_totals(bill_lines))
    /\ UNCHANGED bill_lines
    /\ UNCHANGED <<lobbyVars, extractVars, scanVars, claimVars>>

TotalsNext == DetectTotals

SpecTotals == TotalsInit /\ [][TotalsNext]_vars

(***************************************************************************)
(* The detection of the taxes and charges of a receipt: detect_bill_totals *)
(* on the lines of a receipt footer that name a tax, a service charge, a   *)
(* rate or a tax registration, between the lines of the totals.            *)
(***************************************************************************)
MaxChargeLines == 3

ChargeFooterLines ==
    { Line("Sub Total", <<Tok(10000, 2)>>),
      Line("Total", <<Tok(11000, 2)>>),
      Line("Grand Total", <<Tok(12000, 2)>>),
      Line("CGST", <<Tok(500, 2)>>),
      Line("CGST @2.5%", <<>>),
      Line("CGST @2.5%", <<Tok(250, 2)>>),
      Line("Service Charge", <<Tok(1000, 2)>>),
      Line("Service Charge @10%", <<>>),
      Line("Service Charge @10%", <<Tok(1000, 2)>>),
      Line("Service Tax", <<Tok(500, 2)>>),
      Line("VAT on Food", <<>>),
      Line("VAT on Food", <<Tok(1250, 2)>>),
      Line("Round Off", <<Tok(-10, 2)>>),
      Line("GST:27AABCC1926B1Z8", <<>>),
      Line("GST No:", <<Tok(123456700, 0)>>) }

ChargesInit ==
    /\ \E n \in 1 .. MaxChargeLines : bill_lines \in [1 .. n -> ChargeFooterLines]
    /\ bill_totals = None
    /\ NoLobby /\ NoExtraction /\ NoScan

SpecCharges == ChargesInit /\ [][TotalsNext]_vars

(***************************************************************************)
(* POST /scan-bill on a receipt of a table header, item lines, lines the   *)
(* extractor cannot parse and possibly a subtotal line, with every         *)
(* combination of the query flags and every outcome of the secondary       *)
(* source.                                                                 *)
(***************************************************************************)
MaxItemLines == 7
MaxReviewLines == 7

Repeat(x, n) == [i \in 1 .. n |-> x]

ScanFooters == {<<>>, <<Line("Sub Total", <<Tok(900, 2)>>)>>}

ScanReceipts ==
    {<<>>} \cup
    { <<Line("Item Qty Amount", <<>>)>>
        \o Repeat(Line("Pizza", <<Tok(200, 0), Tok(100, 2), Tok(200, 2)>>), k)
        \o Repeat(Line("Naan", <<Tok(40, 2)>>), n)
        \o footer :
      k \in 0 .. MaxItemLines, n \in 0 .. MaxReviewLines, footer \in ScanFooters }

GeminiItem(name, quantity, unit_price, cost) ==
    [name |-> name, quantity |-> quantity, unit_price |-> unit_price, cost |-> cost]

GeminiItemLists ==
    { <<>>,
      <<GeminiItem("Naan", 100, 40, 40)>>,
      <<GeminiItem("PIZZA!", 200, 100, 200)>>,
      <<GeminiItem("Naan", 100, 40, 40), GeminiItem("Lassi", 200, 0, 1),
        GeminiItem("PIZZA!", 200, 100, 200)>>,
      <<GeminiItem("X", 100, 40, 40), GeminiItem("Naan", 100, 0, 0)>>,
      <<GeminiItem("Payable", 100, 500, 500), GeminiItem("--", 100, 500, 500)>>,
      Repeat(GeminiItem("Naan", 100, 40, 40), 6) }

GeminiReviews == {Repeat(Review(Line("Naan", <<Tok(40, 2)>>), "unclear"), n) : n \in {0, 1, 5}}

GeminiOutcomes ==
    {[kind |-> kind, items |-> <<>>, needs_review |-> <<>>] :
        kind \in {"no_api_key", "raises"} \cup GeminiFailures}
    \cup {[kind |-> "ok", items |-> its, needs_review |-> revs] :
            its \in GeminiItemLists, revs \in GeminiReviews}

ScanRequests ==
    [ocr_lines : ScanReceipts, tieUp : BOOLEAN, use_hybrid : BOOLEAN,
     force_fallback : BOOLEAN, gemini : GeminiOutcomes, image_valid : BOOLEAN]

ScanInit ==
    /\ scan_request \in ScanRequests
    /\ scan_primary = None
    /\ scan_arbitration = None
    /\ scan_response = None
    /\ gemini_calls = 0
    /\ NoLobby /\ NoExtraction /\ NoDetection

ScanBill ==
    /\ IsNone(scan_response)
    /\ \E primary \in {run_paddle_pipeline(scan_request.ocr_lines, scan_request.tieUp)} :
         \E arb \in {arbitrate(scan_request, primary)} :
            /\ scan_primary' = IF scan_request.image_valid THEN Some(primary) ELSE None
            /\ scan_arbitration' = IF scan_request.image_valid THEN Some(arb) ELSE None
            /\ gemini_calls' = IF /\ scan_request.image_valid
                                  /\ should_try_fallback(scan_request, primary)
                               THEN 1 ELSE 0
            /\ scan_response' = Some(scan_bill_response(scan_request, primary, arb))
    /\ UNCHANGED scan_request
    /\ UNCHANGED <<lobbyVars, extractVars, totalsVars, claimVars>>

ScanNext == ScanBill

SpecScan == ScanInit /\ [][ScanNext]_vars

(***************************************************************************)
(* POST /scan-bill on a long receipt: a table header, item lines, a line   *)
(* that mentions an item, up to twenty-one lines the extractor cannot      *)
(* parse, and a footer with a subtotal, a grand total or both.             *)
(***************************************************************************)
MaxReviewItems == 6
MaxUnparsedLines == 21

ReviewFooters ==
    { <<>>,
      <<Line("Sub Total", <<Tok(1000, 2)>>)>>,
      <<Line("Grand Total", <<Tok(1050, 2)>>)>>,
      <<Line("Sub Total", <<Tok(1000, 2)>>), Line("Grand Total", <<Tok(1050, 2)>>)>> }

ItemMentions == {<<>>, <<Line("Pizza:", <<Tok(40, 2)>>)>>}

ReviewReceipts ==
    { <<Line("Item Qty Amount", <<>>)>>
        \o Repeat(Line("Pizza", <<Tok(200, 0), Tok(100, 2), Tok(200, 2)>>), k)
        \o mention
        \o Repeat(Line("Naan", <<Tok(40, 2)>>), n)
        \o footer :
      k \in 0 .. MaxReviewItems, mention \in ItemMentions,
      n \in 0 .. MaxUnparsedLines, footer \in ReviewFooters }

ReviewGeminiOutcomes ==
    { g \in GeminiOutcomes :
        \/ g.kind = "no_api_key"
        \/ /\ g.kind = "ok"
           /\ g.items = <<GeminiItem("Naan", 100, 40, 40)>>
           /\ g.needs_review = <<>> }

ReviewRequests ==
    [ocr_lines : ReviewReceipts, tieUp : {FALSE}, use_hybrid : BOOLEAN,
     force_fallback : {FALSE}, gemini : ReviewGeminiOutcomes, image_valid : BOOLEAN]

ReviewInit ==
    /\ scan_request \in ReviewRequests
    /\ scan_primary = None
    /\ scan_arbitration = None
    /\ scan_response = None
    /\ gemini_calls = 0
    /\ NoLobby /\ NoExtraction /\ NoDetection

SpecReview == ReviewInit /\ [][ScanNext]_vars

\* the last response is a summary; its body is the summary of the current
\* state, since no request has been served after it
Summarised == response.op = "summary" /\ response.status = 200

Body == Val(response.body)

ExtraShareSum == SumSeq([p \in 1 .. Len(Body.users) |-> Body.users[p].extra_share])

TotalSum == SumSeq([p \in 1 .. Len(Body.users) |-> Body.users[p].total])

(***************************************************************************)
(* C1: in the settlement, whenever grand_total >= item_subtotal and some   *)
(* participant has claimed something (the bill may be partly claimed), the *)
(* extra shares of all participants sum to exactly the extra-charge cents  *)
(* round((grand_total - item_subtotal) * 100).                             *)
(***************************************************************************)
C1_ExtraSharesSumToExtraCents ==
    (/\ Summarised
     /\ Body.grand_total >= Body.item_subtotal
     /\ Body.claimed_base_total > 0)
    => ExtraShareSum = Body.grand_total - Body.item_subtotal

(***************************************************************************)
(* C2: for every consistent snapshot (each item's claims sum to at most    *)
(* its quantity) the participants' totals sum to at most grand_total.      *)
(***************************************************************************)
C2_TotalsWithinGrandTotal ==
    (/\ Summarised
     /\ \A i \in 1 .. Len(items) : claimed_qty_sum(i) <= items[i].quantity)
    => TotalSum <= Body.grand_total

(***************************************************************************)
(* C3, as stated: after any sequence of claim, claim-reset, item-update    *)
(* and item-add requests the quantities claimed for an item sum to at most *)
(* the item's quantity.                                                    *)
(***************************************************************************)
C3_ClaimsWithinQuantity ==
    \A i \in 1 .. Len(items) : claimed_qty_sum(i) <= items[i].quantity

\* the quantity of item i that others than user u have left unclaimed
RemainingFor(i, u) ==
    items[i].quantity - SumSeq([v \in UserIds |-> IF v = u THEN 0 ELSE claims[i][v]])

ClaimedOf(i) == SumSeq([v \in UserIds |-> claims[i][v]])

(***************************************************************************)
(* C3, amended: the quantities claimed for an item sum to at most the      *)
(* item's quantity plus the tolerance 1e-6 (one quantity unit); a claim    *)
(* is accepted only if it exceeds the remaining claimable quantity by at   *)
(* most 1e-6, and an item-update only if it leaves the quantity at most    *)
(* 1e-6 below the claimed sum: anything beyond is rejected.                *)
(***************************************************************************)
C3_ClaimsWithinTolerance ==
    [][/\ \A i \in 1 .. Len(items') : ClaimedOf(i)' <= items'[i].quantity + 1
       /\ (response'.op = "claim" /\ response'.status = 200)
          => \A i \in 1 .. Len(items), u \in UserIds :
                claims'[i][u] # claims[i][u] => claims'[i][u] <= RemainingFor(i, u) + 1
       /\ (response'.op = "item-update" /\ response'.status = 200)
          => \A i \in 1 .. Len(items) : ClaimedOf(i) <= items'[i].quantity + 1]_vars

\* an item whose whole quantity is claimed by two users, one of them having
\* just been refused a larger claim, and the other one unit above the quantity left
C3_Witness ==
    /\ response = Reply("claim", 400)
    /\ \E i \in 1 .. Len(items) :
        /\ ClaimedOf(i) = items[i].quantity + 1
        /\ \A u \in UserIds : claims[i][u] > 0

\* an item's cost lies within max(1.00, 8% of the cost) of quantity times
\* unit price (the quantity is held in hundredths, the money in cents)
CostConsistent(item) ==
    Abs(100 * item.cost - item.quantity * item.unit_price) <= Max(10000, 8 * item.cost)

(***************************************************************************)
(* C4: every item extract_items_from_lines returns, whichever row shape or *)
(* the generic rule produced it, satisfies                                 *)
(* abs(cost - quantity * unit_price) <= max(1.0, 0.08 * cost).             *)
(***************************************************************************)
C4_ItemsCostConsistent ==
    ~IsNone(extracted)
    => \A i \in 1 .. Len(Val(extracted)) : CostConsistent(Val(extracted)[i])

\* the scan has been answered for an image that could be decoded
Scanned == ~IsNone(scan_response) /\ scan_request.image_valid

Primary == Val(scan_primary)

Arbitration == Val(scan_arbitration)

Response == Val(scan_response)

\* the thresholds and the force flag that trigger the secondary source
Triggered ==
    \/ Len(Primary.items) < 2
    \/ compute_quality_score(Primary.items, Primary.needs_review) < 520
    \/ Len(Primary.needs_review) > Max(3, Len(Primary.items))
    \/ scan_request.force_fallback

(***************************************************************************)
(* C5, as stated: a scan invokes the secondary extraction source if and    *)
(* only if the primary item count is < 2, or the primary quality score is  *)
(* < 0.52, or the review-entry count exceeds max(3, item_count), or the    *)
(* force flag is set.                                                      *)
(***************************************************************************)
C5_InvokedIffTriggered == Scanned => (gemini_calls = 1 <=> Triggered)

(***************************************************************************)
(* C5, amended: a scan calls the secondary extraction source if and only   *)
(* if the image could be decoded, hybrid mode is on (use_hybrid) and one   *)
(* of the four conditions holds; with hybrid mode off the secondary source *)
(* is never called, whatever the force flag.                               *)
(***************************************************************************)
C5_InvokedIffHybridAndTriggered ==
    ~IsNone(scan_response)
    => /\ gemini_calls \in {0, 1}
       /\ gemini_calls = 1 <=> (Scanned /\ scan_request.use_hybrid /\ Triggered)
       /\ Scanned => Response.confidence_summary[1].fallback_attempted = (gemini_calls = 1)

\* a scan in hybrid mode whose primary result is good enough, so that the
\* force flag alone has made it call the secondary source
C5_Witness ==
    /\ Scanned
    /\ gemini_calls = 1
    /\ scan_request.force_fallback
    /\ Len(Primary.items) >= 2
    /\ compute_quality_score(Primary.items, Primary.needs_review) >= 520
    /\ Len(Primary.needs_review) <= Max(3, Len(Primary.items))

\* s is the beginning of t
IsPrefix(s, t) == Len(s) <= Len(t) /\ SubSeq(t, 1, Len(s)) = s

(***************************************************************************)
(* C6: when the secondary source was called and failed (timeout, transport *)
(* error, malformed payload, or an exception), the scan returns a normal   *)
(* response (no error, totals and confidence summary present) whose items  *)
(* and source are those of the primary extraction and whose needs_review   *)
(* begins with the primary review list, to which only the reconciliation   *)
(* has appended.                                                           *)
(***************************************************************************)
C6_FailureKeepsPrimary ==
    (/\ Scanned
     /\ gemini_calls = 1
     /\ scan_request.gemini.kind \in GeminiFailures \cup {"raises"})
    => /\ IsNone(Response.error)
       /\ ~IsNone(Response.totals)
       /\ ~IsNone(Response.confidence_summary)
       /\ Response.items = Primary.items
       /\ Response.source = "paddle"
       /\ Arbitration.needs_review = Primary.needs_review
       /\ IsPrefix(Primary.needs_review, Response.needs_review)
       /\ \A i \in Len(Primary.needs_review) + 1 .. Len(Response.needs_review) :
            Response.needs_review[i].reason
                \in {"subtotal_mismatch", "total_sanity_check_failed"}

\* an exception has escaped the call of the secondary source in a scan whose
\* primary extraction had found items and review entries, and the
\* reconciliation has appended its entry
C6_Witness ==
    /\ Scanned
    /\ gemini_calls = 1
    /\ scan_request.gemini.kind = "raises"
    /\ Primary.items # <<>>
    /\ Primary.needs_review # <<>>
    /\ Len(Response.needs_review) > Len(Primary.needs_review)

(***************************************************************************)
(* C7: whenever the secondary source was attempted and failed (timeout,    *)
(* transport error or malformed payload), the response has                 *)
(* fallback_attempted = true and a fallback_error that is set.             *)
(***************************************************************************)
C7_FailureRecorded ==
    (/\ Scanned
     /\ gemini_calls = 1
     /\ scan_request.gemini.kind \in GeminiFailures)
    => /\ Response.confidence_summary[1].fallback_attempted
       /\ ~IsNone(Response.confidence_summary[1].fallback_error)

\* the list the secondary source returns in this scan
SecondaryItems == normalized_items(scan_request.gemini.items)

\* the secondary source was called and has returned a non-empty item list
SecondarySucceeded ==
    /\ Scanned
    /\ gemini_calls = 1
    /\ scan_request.gemini.kind = "ok"
    /\ SecondaryItems # <<>>

\* item j of the final list is a secondary item that passed the merge
\* screen: a name key no earlier item has, no non-menu name, quantity and
\* cost above zero; its unit price is kept unless it was absent
PassedMergeScreen(final, j) ==
    \E i \in 1 .. Len(SecondaryItems) :
        LET item == SecondaryItems[i]
        IN  /\ final[j].name = item.name
            /\ final[j].quantity = item.quantity
            /\ final[j].cost = item.cost
            /\ item.unit_price > 0 => final[j].unit_price = item.unit_price
            /\ item.quantity > 0
            /\ item.cost > 0
            /\ ~NON_MENU_ITEM_NAME_PATTERN(item.name)
            /\ item_name_key(item.name) # ""
            /\ \A k \in 1 .. j - 1 : item_name_key(final[k].name) # item_name_key(item.name)

(***************************************************************************)
(* C8: when the secondary source succeeds with a non-empty item list, the  *)
(* arbitration ends as follows.  If the secondary quality score is >= the  *)
(* primary one, the items and the review list are exactly the secondary's  *)
(* and the source is the secondary.  Otherwise the items are the primary   *)
(* items followed only by secondary items that passed the merge screen,    *)
(* the review list is the primary's, and the source is "hybrid_merged"     *)
(* exactly when at least one secondary item was appended.                  *)
(***************************************************************************)
C8_ReplaceOrMerge ==
    SecondarySucceeded
    => IF compute_quality_score(SecondaryItems, scan_request.gemini.needs_review)
            >= compute_quality_score(Primary.items, Primary.needs_review)
       THEN /\ Arbitration.items = SecondaryItems
            /\ Arbitration.needs_review = scan_request.gemini.needs_review
            /\ Arbitration.source = "gemini_fallback"
            /\ Response.items = SecondaryItems
            /\ Response.source = "gemini_fallback"
            /\ IsPrefix(scan_request.gemini.needs_review, Response.needs_review)
       ELSE /\ IsPrefix(Primary.items, Arbitration.items)
            /\ \A j \in Len(Primary.items) + 1 .. Len(Arbitration.items) :
                 PassedMergeScreen(Arbitration.items, j)
            /\ Arbitration.needs_review = Primary.needs_review
            /\ Arbitration.source = "hybrid_merged"
                 <=> Len(Arbitration.items) > Len(Primary.items)
            /\ Arbitration.source \in {"hybrid_merged", "paddle"}
            /\ Response.items = Arbitration.items
            /\ Response.source = Arbitration.source
            /\ IsPrefix(Primary.needs_review, Response.needs_review)

\* a merge: the secondary source scored lower than the primary extraction,
\* one of its items was appended and another one was screened out
C8_Witness ==
    /\ SecondarySucceeded
    /\ Arbitration.source = "hybrid_merged"
    /\ Len(Arbitration.items) < Len(Primary.items) + Len(SecondaryItems)
    /\ Len(Primary.items) > 0

\* the totals have been detected
Detected == ~IsNone(bill_totals)

BillTotals == Val(bill_totals)

(***************************************************************************)
(* C9: whenever detect_bill_totals returns both a detected_subtotal and a  *)
(* detected_grand_total, the grand total is at least the subtotal minus a  *)
(* small tolerance (1.00 here), whether it came from an explicit keyword   *)
(* line, the waterfall or the derivation.                                  *)
(***************************************************************************)
C9_GrandTotalNotBelowSubtotal ==
    (/\ Detected
     /\ ~IsNone(BillTotals.detected_subtotal)
     /\ ~IsNone(BillTotals.detected_grand_total))
    => Val(BillTotals.detected_grand_total) >= Val(BillTotals.detected_subtotal) - 100

\* the positions of the lines that carry a grand-total keyword
GrandKeywordLines ==
    {i \in 1 .. Len(bill_lines) : bill_lines[i].label \in GrandTotalLabels}

\* the total-like candidates of the receipt, each with its line index
TotalCandidates == detect_loop(TotalsStart, 0, bill_lines).total_candidates

\* the candidates the waterfall of the claim chooses from: those in the
\* last 8 lines (all if none lie there), without those below the subtotal
WaterfallRemaining ==
    LET at_bottom(c) == c.idx >= Len(bill_lines) - 8
        bottom == SelectSeq(TotalCandidates, at_bottom)
        pool == IF bottom # <<>> THEN bottom ELSE TotalCandidates
        not_below(c) == IsNone(BillTotals.detected_subtotal)
                        \/ c.amount >= Val(BillTotals.detected_subtotal)
    IN  Amounts(SelectSeq(pool, not_below))

\* the grand total the arithmetic derivation gives, unset when it does not apply
Derived ==
    LET charge(v) == IF IsNone(v) THEN 0 ELSE Val(v)
    IN  IF /\ ~IsNone(BillTotals.detected_subtotal)
           /\ \/ ~IsNone(BillTotals.detected_tax_total)
              \/ ~IsNone(BillTotals.detected_service_charge)
              \/ ~IsNone(BillTotals.detected_round_off)
        THEN Some(Val(BillTotals.detected_subtotal) + charge(BillTotals.detected_tax_total)
                  + charge(BillTotals.detected_service_charge)
                  + charge(BillTotals.detected_round_off))
        ELSE None

(***************************************************************************)
(* C10: if any line carries a grand-total keyword, detected_grand_total is *)
(* the amount of the last such line, whatever total-like amounts exist;    *)
(* the waterfall is used only when no such line exists and at least two    *)
(* total-like candidates exist, and it then returns the maximum among the  *)
(* candidates in the last 8 lines (all candidates if none lie there) after *)
(* discarding the candidates below the detected subtotal.                  *)
(***************************************************************************)
C10_GrandTotalChoice ==
    Detected
    => /\ GrandKeywordLines # {}
          => BillTotals.detected_grand_total
                = line_amount(bill_lines[CHOOSE i \in GrandKeywordLines :
                                            \A j \in GrandKeywordLines : j <= i])
       /\ (GrandKeywordLines = {} /\ Len(TotalCandidates) >= 2 /\ WaterfallRemaining # <<>>)
          => BillTotals.detected_grand_total = Some(MaxSeq(WaterfallRemaining))
       /\ (GrandKeywordLines = {} /\ (Len(TotalCandidates) < 2 \/ WaterfallRemaining = <<>>))
          => BillTotals.detected_grand_total = Derived

\* the accumulators the loop of detect_bill_totals ends with on the receipt
Accumulated == detect_loop(TotalsStart, 0, bill_lines)

\* neither an explicit grand-total line nor the waterfall yields a grand total
NoExplicitNoWaterfall ==
    /\ \/ Accumulated.grand_total_candidates = <<>>
       \/ IsNone(Last(Accumulated.grand_total_candidates))
    /\ Len(Accumulated.total_candidates) < 2

\* a subtotal is known together with a tax total, a service charge or a round-off
SubtotalAndCharge ==
    /\ ~IsNone(BillTotals.detected_subtotal)
    /\ \/ Accumulated.tax_total > 0
       \/ Accumulated.service_charge > 0
       \/ Accumulated.round_off # 0

(***************************************************************************)
(* C11: when neither an explicit grand-total line nor the waterfall yields *)
(* a grand total, and a subtotal is known together with at least one of    *)
(* tax_total > 0, service_charge > 0 or round_off # 0, detect_bill_totals  *)
(* returns detected_grand_total = subtotal + tax_total + service_charge +  *)
(* round_off; if no subtotal or none of those charges is known, the        *)
(* detected_grand_total stays unset.                                       *)
(***************************************************************************)
C11_DerivedGrandTotal ==
    Detected
    => With(Accumulated, LAMBDA acc :
          (/\ \/ acc.grand_total_candidates = <<>>
              \/ IsNone(Last(acc.grand_total_candidates))
           /\ Len(acc.total_candidates) < 2)
          => BillTotals.detected_grand_total =
                IF /\ ~IsNone(BillTotals.detected_subtotal)
                   /\ (acc.tax_total > 0 \/ acc.service_charge > 0 \/ acc.round_off # 0)
                THEN Some(Val(BillTotals.detected_subtotal) + acc.tax_total
                          + acc.service_charge + acc.round_off)
                ELSE None)

\* a derived grand total that a tax and a negative round-off enter
C11_Witness ==
    /\ Detected /\ NoExplicitNoWaterfall /\ SubtotalAndCharge
    /\ Accumulated.tax_total > 0
    /\ Accumulated.round_off < 0
    /\ BillTotals.detected_grand_total =
          Some(Val(BillTotals.detected_subtotal) + Accumulated.tax_total
               + Accumulated.service_charge + Accumulated.round_off)

\* a tax-registration line: a GST label followed by the identifier
TaxRegistrationLabels == {"GST:27AABCC1926B1Z8", "GST No:"}

TaxRegistrationLine(line) == line.label \in TaxRegistrationLabels

NoRegistration(line) == ~TaxRegistrationLine(line)

(***************************************************************************)
(* C12: a tax-registration line is never counted as a tax amount: it adds  *)
(* nothing to detected_tax_total (the receipt without its registration     *)
(* lines has the same tax total), creates no entry in the                  *)
(* detected_tax_breakdown, and is never a total-like candidate for the     *)
(* grand total.                                                            *)
(***************************************************************************)
C12_RegistrationLineNotCounted ==
    Detected
    => /\ BillTotals.detected_tax_total =
             detect_bill_totals(SelectSeq(bill_lines, NoRegistration)).detected_tax_total
       /\ \A i \in 1 .. Len(BillTotals.detected_tax_breakdown) :
             ~TaxRegistrationLine(BillTotals.detected_tax_breakdown[i].name)
       /\ \A i \in 1 .. Len(TotalCandidates) :
             ~TaxRegistrationLine(bill_lines[TotalCandidates[i].idx + 1])

\* a tax or service-charge line that carries a trailing amount
TaxKeywordLine(line) ==
    line.label \in TaxLabels /\ ~TaxRegistrationLine(line)

ChargeLine(line) ==
    /\ TaxKeywordLine(line) \/ line.label \in ServiceChargeLabels
    /\ ~IsNone(parse_trailing_amount(line))

TaxChargeLine(line) == TaxKeywordLine(line) /\ ChargeLine(line)

\* the breakdown entry of a charge line
ChargeEntry(line) == [name |-> line, amount |-> Val(parse_trailing_amount(line))]

ChargeEntries(lines) == [i \in 1 .. Len(lines) |-> ChargeEntry(lines[i])]

(***************************************************************************)
(* C13: detected_tax_breakdown holds exactly one entry, in receipt order,  *)
(* for each tax or service-charge line that carries a trailing amount, and *)
(* detected_tax_total is the sum of the amounts of the tax-keyword lines   *)
(* among them (unset when that sum is not positive); a line that shows a   *)
(* percentage but no trailing amount changes neither of the two.  Stated   *)
(* for the receipts without a tax-registration line.                       *)
(***************************************************************************)
C13_BreakdownOfChargeLines ==
    (Detected /\ \A i \in 1 .. Len(bill_lines) : NoRegistration(bill_lines[i]))
    => /\ BillTotals.detected_tax_breakdown
             = ChargeEntries(SelectSeq(bill_lines, ChargeLine))
       /\ LET tax_sum == SumSeq(Amounts(ChargeEntries(SelectSeq(bill_lines, TaxChargeLine))))
          IN  BillTotals.detected_tax_total
                 = IF tax_sum > 0 THEN Some(tax_sum) ELSE None

\* the items that were added by hand, and the sum of their costs
ManualItems == ScannedItems + 1 .. Len(items)

ManualCost == SumSeq([i \in 1 .. Len(items) |-> IF i \in ManualItems THEN items[i].cost ELSE 0])

AllCost == SumSeq([i \in 1 .. Len(items) |-> items[i].cost])

(***************************************************************************)
(* C14: in the settlement, item_subtotal equals detected_subtotal plus the *)
(* summed cost of the manually-added items when a detected subtotal        *)
(* exists, and the sum of all item costs otherwise; grand_total follows    *)
(* the same precedence from detected_grand_total and otherwise equals      *)
(* item_subtotal; extra_charges = max(0, grand_total - item_subtotal) and  *)
(* is never negative.                                                      *)
(***************************************************************************)
C14_HeadlineFigures ==
    Summarised
    => /\ Body.item_subtotal =
             IF ~IsNone(receipt_totals.detected_subtotal)
             THEN Val(receipt_totals.detected_subtotal) + ManualCost
             ELSE AllCost
       /\ Body.grand_total =
             IF ~IsNone(receipt_totals.detected_grand_total)
             THEN Val(receipt_totals.detected_grand_total) + ManualCost
             ELSE Body.item_subtotal
       /\ Body.extra_charges = Max(0, Body.grand_total - Body.item_subtotal)
       /\ Body.extra_charges >= 0

\* the item invariant on a stored item: quantity in millionths, money in cents
StoredCostConsistent(item) ==
    Abs(item.cost * Scale - item.quantity * item.unit_price)
        <= Max(100 * Scale, 8 * item.cost * (Scale \div 100))

(***************************************************************************)
(* C16: every successful later mutation of a stored item (item-update      *)
(* changing any subset of quantity, unit_price and cost, and item-add)     *)
(* preserves the item invariant: an item for which                         *)
(* abs(cost - quantity * unit_price) <= max(1.0, 0.08 * cost) held before  *)
(* the request satisfies it after, and an added item satisfies it.         *)
(***************************************************************************)
C16_MutationsPreserveItemInvariant ==
    [][\A i \in 1 .. Len(items') :
          (i <= Len(items) => StoredCostConsistent(items[i]))
          => StoredCostConsistent(items'[i])]_vars

\* review lists of the score: from none to past the cap of the penalty
MaxScoreReviews == 9

ReviewsOf(n) == Repeat(Review(Line("Naan", <<Tok(40, 2)>>), "unparsed_line"), n)

(***************************************************************************)
(* C15: for a fixed item set, adding review entries never increases the    *)
(* quality score: compute_quality_score(items, r1) >=                      *)
(* compute_quality_score(items, r2) whenever r2 has at least as many       *)
(* entries as r1; the score always lies in [0, 1], and it is 0.0 for an    *)
(* empty item list.  Stated for the items of the primary extraction and    *)
(* the items the scan returns.                                             *)
(***************************************************************************)
C15_QualityScoreMonotone ==
    Scanned
    => \A its \in {Primary.items, Response.items, <<>>} :
          \A n1 \in 0 .. MaxScoreReviews, n2 \in 0 .. MaxScoreReviews :
             /\ n1 <= n2 => compute_quality_score(its, ReviewsOf(n1))
                               >= compute_quality_score(its, ReviewsOf(n2))
             /\ compute_quality_score(its, ReviewsOf(n1)) \in 0 .. 1000
             /\ its = <<>> => compute_quality_score(its, ReviewsOf(n1)) = 0

\* a scan whose review entries lowered the score of six or more items
C15_Witness ==
    /\ Scanned
    /\ Len(Primary.items) >= 6
    /\ Primary.needs_review # <<>>
    /\ compute_quality_score(Primary.items, Primary.needs_review)
          < compute_quality_score(Primary.items, <<>>)
    /\ Response.confidence_summary # None

\* the lines of the upload that look monetary and are not a header, a
\* total, a tax or another line the extractor skips by its keywords
ReviewableLines ==
    { i \in 1 .. Len(scan_request.ocr_lines) :
        /\ has_money(normalize_line_text(scan_request.ocr_lines[i]))
        /\ ~should_skip_line(normalize_line_text(scan_request.ocr_lines[i]), TRUE) }

UnparsedEntries ==
    { i \in 1 .. Len(Primary.needs_review) :
        Primary.needs_review[i].reason = "unparsed_line" }

(***************************************************************************)
(* C17: every OCR line that looks monetary and from which no item was      *)
(* extracted is recorded in needs_review with reason unparsed_line, for    *)
(* receipts with any number of such lines: an extracted item comes from    *)
(* one line, so the unparsed_line entries are at least as many as the      *)
(* monetary lines beyond the extracted items.                              *)
(***************************************************************************)
C17_UnparsedLinesRecorded ==
    (Scanned /\ scan_request.ocr_lines # <<>>)
    => Cardinality(UnparsedEntries)
          >= Cardinality(ReviewableLines) - Len(Primary.items)

\* the detected totals and the reasons of the review entries of the response
ScanDetected == Val(Response.totals)

ReviewReasons == {Response.needs_review[i].reason : i \in 1 .. Len(Response.needs_review)}

SubtotalDisagrees ==
    /\ ~IsNone(ScanDetected.detected_subtotal)
    /\ 50 * Abs(Response.computed_subtotal - Val(ScanDetected.detected_subtotal))
          > Max(10000, Max(100, Val(ScanDetected.detected_subtotal)))

ExceedsGrandTotal ==
    /\ ~IsNone(ScanDetected.detected_grand_total)
    /\ Response.computed_subtotal > Val(ScanDetected.detected_grand_total) + 100

(***************************************************************************)
(* C18: whenever the computed item subtotal disagrees with a detected      *)
(* subtotal beyond tolerance, the scan appends a subtotal_mismatch entry   *)
(* to needs_review, and whenever it exceeds a detected grand total (by     *)
(* more than one unit), the scan appends a total_sanity_check_failed       *)
(* entry; each of the two independently, also when both totals are         *)
(* detected, and the response is returned without an error.                *)
(***************************************************************************)
C18_ReconciliationRecorded ==
    Scanned
    => /\ IsNone(Response.error)
       /\ SubtotalDisagrees => "subtotal_mismatch" \in ReviewReasons
       /\ ExceedsGrandTotal => "total_sanity_check_failed" \in ReviewReasons

\* the lines of the receipt that match the header pattern and the end pattern
HeaderLine(i) == TABLE_HEADER_PATTERN(normalize_line_text(receipt_lines[i]))

EndLine(i) == TABLE_END_PATTERN(normalize_line_text(receipt_lines[i]))

\* some header line lies before line i with no end-pattern line between the two
OpenedBefore(i) ==
    \E j \in 1 .. i - 1 : HeaderLine(j) /\ \A k \in j + 1 .. i - 1 : ~EndLine(k)

\* the strict pass is running or has just ended
InStrictPass == strict_pass /\ line_no >= 1

(***************************************************************************)
(* C19: in the strict pass the table-boundary machine starts               *)
(* outside-table; every item emitted comes from a line that follows some   *)
(* header line with no end-pattern line between that header and the item   *)
(* line; header lines and end-pattern lines themselves never produce       *)
(* items; and if no header line occurs in the input the strict pass emits  *)
(* no item at all.                                                         *)
(***************************************************************************)
C19_StrictPassTableMachine ==
    /\ [](InStrictPass
            => /\ line_no = 1 => ~inside_item_table /\ found_items = <<>>
               /\ inside_item_table <=> OpenedBefore(line_no)
               /\ (\A i \in 1 .. Len(receipt_lines) : ~HeaderLine(i))
                     => pass_result([inside_item_table |-> inside_item_table,
                                     saw_table_header |-> saw_table_header,
                                     items |-> found_items], TRUE) = <<>>)
    /\ [][(InStrictPass /\ strict_pass' /\ found_items' # found_items)
            => /\ OpenedBefore(line_no)
               /\ ~HeaderLine(line_no)
               /\ ~EndLine(line_no)
               /\ Len(found_items') = Len(found_items) + 1]_vars

\* the strict pass skipped a line in front of the header and emitted an
\* item from a line behind it
C19_Witness ==
    /\ InStrictPass
    /\ line_no = 4
    /\ ~HeaderLine(1) /\ ~EndLine(1)
    /\ HeaderLine(2)
    /\ receipt_lines[3] = receipt_lines[1]
    /\ Len(found_items) = 1

\* the locals the returning pass ended with
PassLocals ==
    [inside_item_table |-> inside_item_table,
     saw_table_header |-> saw_table_header,
     items |-> found_items]

Returned == ~IsNone(extracted)

(***************************************************************************)
(* C20: extract_items_from_lines returns exactly the strict pass's items   *)
(* (after the non-menu-name filter) whenever that list is non-empty, and   *)
(* runs the fallback pass only when the filtered strict result is empty;   *)
(* the items of the two passes are never mixed, and no returned item has   *)
(* a name matching the non-menu keyword set.                               *)
(***************************************************************************)
C20_StrictThenFallback ==
    Returned
    => /\ strict_pass
            => /\ Val(extracted) # <<>>
               /\ Val(extracted) = menu_items(pass_result(PassLocals, TRUE))
       /\ ~strict_pass
            => /\ \A tieUp \in BOOLEAN :
                     menu_items(_extract_items_from_lines(receipt_lines, TRUE, tieUp)) = <<>>
               /\ Val(extracted) = menu_items(pass_result(PassLocals, FALSE))
       /\ \A i \in 1 .. Len(Val(extracted)) :
             ~NON_MENU_ITEM_NAME_PATTERN(Val(extracted)[i].name)

\* the strict pass found only an item with a non-menu name, and the fallback
\* pass returned items
C20_Witness ==
    /\ Returned
    /\ ~strict_pass
    /\ Val(extracted) # <<>>
    /\ \E tieUp \in BOOLEAN :
          _extract_items_from_lines(receipt_lines, TRUE, tieUp) # <<>>

(***************************************************************************)
(* C21: every item returned by extract_items_from_lines has a cleaned name *)
(* of at least 2 characters, cost >= 0.5, 0 < quantity <= 25 and           *)
(* unit_price >= 0, and never has quantity > 15 together with              *)
(* unit_price < 10.                                                        *)
(***************************************************************************)
C21_ReturnedItemsPlausible ==
    Returned
    => \A i \in 1 .. Len(Val(extracted)) :
          LET item == Val(extracted)[i]
          IN  /\ Len(item.name) >= 2
              /\ item.cost >= 50
              /\ 0 < item.quantity /\ item.quantity <= 2500
              /\ item.unit_price >= 0
              /\ ~(item.quantity > 1500 /\ item.unit_price < 1000)

\* the exact proportional share of the participant at position p of the
\* summary, in cents: its floor and the numerator of its fractional remainder
ExactFloor(p) == (Body.extra_charges * Body.users[p].base_total) \div Body.item_subtotal

ExactFraction(p) == (Body.extra_charges * Body.users[p].base_total) % Body.item_subtotal

Shortfall ==
    Body.extra_charges - SumSeq([p \in 1 .. Len(Body.users) |-> ExactFloor(p)])

\* the participants served before the one at position p: a larger fractional
\* remainder, or an equal one and an earlier position
ServedBefore(p) ==
    {p2 \in 1 .. Len(Body.users) :
        \/ ExactFraction(p2) > ExactFraction(p)
        \/ ExactFraction(p2) = ExactFraction(p) /\ p2 < p}

Distributed == Summarised /\ Body.extra_charges > 0 /\ Body.item_subtotal > 0

(***************************************************************************)
(* C22: in the extra-charge distribution each participant first receives   *)
(* floor(extra_cents * base_total / item_subtotal) cents; the shortfall    *)
(* extra_cents - sum of floors is then handed out one cent at a time to    *)
(* the participants with the largest fractional remainders, and among      *)
(* participants with equal fractional remainder the one earlier in         *)
(* participant order is served first.                                      *)
(***************************************************************************)
C22_LargestRemainderShares ==
    Distributed
    => \A p \in 1 .. Len(Body.users) :
          Body.users[p].extra_share
             = ExactFloor(p) + (IF Cardinality(ServedBefore(p)) < Shortfall THEN 1 ELSE 0)

\* item j of merged comes from an item of extra that passes every test of
\* the merge against the items in front of it
MergedFrom(merged, extra, j, tieUp) ==
    \E i \in 1 .. Len(extra) :
        LET item == extra[i]
        IN  /\ merged[j].name = item.name
            /\ merged[j].quantity = item.quantity
            /\ merged[j].cost = item.cost
            /\ item_name_key(item.name) # ""
            /\ \A k \in 1 .. j - 1 : item_name_key(merged[k].name) # item_name_key(item.name)
            /\ item.quantity > 0
            /\ item.cost > 0
            /\ ~NON_MENU_ITEM_NAME_PATTERN(item.name)
            /\ merged[j].unit_price
                 = IF item.unit_price > 0 THEN item.unit_price
                   ELSE RoundDiv(100 * item.cost, item.quantity, tieUp)

MergeAsClaimed(base_items, extra_items, tieUp) ==
    With(merge_unique_items(base_items, extra_items, tieUp),
         LAMBDA merged :
            /\ IsPrefix(base_items, merged)
            /\ \A j \in Len(base_items) + 1 .. Len(merged) :
                  MergedFrom(merged, extra_items, j, tieUp))

(***************************************************************************)
(* C23: merge_unique_items returns the primary items unchanged and in      *)
(* their order as a prefix, and appends a secondary item only if its       *)
(* normalized name is non-empty and differs from that of every primary     *)
(* item and of every secondary item appended before it, its quantity > 0,  *)
(* its cost > 0 and its name is not a non-menu keyword; an appended item   *)
(* without unit price gets unit_price = cost / quantity.  Stated for the   *)
(* primary items of a scan merged with the items of the secondary source,  *)
(* as returned and as sent.                                                *)
(***************************************************************************)
C23_MergeKeepsPrimaryAndScreens ==
    Scanned
    => \A tieUp \in BOOLEAN :
          /\ MergeAsClaimed(Primary.items, SecondaryItems, tieUp)
          /\ MergeAsClaimed(Primary.items, scan_request.gemini.items, tieUp)

\* a scan that merged: a secondary item without unit price was appended with
\* a derived one, and a secondary item with the name of a primary item was not
C23_Witness ==
    /\ SecondarySucceeded
    /\ Arbitration.source = "hybrid_merged"
    /\ Arbitration.items = merge_unique_items(Primary.items, SecondaryItems, scan_request.tieUp)
    /\ \E j \in Len(Primary.items) + 1 .. Len(Arbitration.items) :
          /\ Arbitration.items[j].name = "Lassi"
          /\ Arbitration.items[j].unit_price > 0
    /\ \E i \in 1 .. Len(SecondaryItems) :
          /\ item_name_key(SecondaryItems[i].name) = item_name_key(Primary.items[1].name)
          /\ \A j \in Len(Primary.items) + 1 .. Len(Arbitration.items) :
                Arbitration.items[j].name # SecondaryItems[i].name

(***************************************************************************)
(* C24: a participant whose base_total is 0 (who claimed nothing) is       *)
(* always allocated extra_share = 0 and total = 0 by the settlement,       *)
(* whatever the other participants claimed and however much of the bill is *)
(* still unclaimed.                                                        *)
(***************************************************************************)
C24_NothingClaimedNothingOwed ==
    Summarised
    => \A p \in 1 .. Len(Body.users) :
          Body.users[p].base_total = 0
          => Body.users[p].extra_share = 0 /\ Body.users[p].total = 0

\* every item's quantity is claimed entirely, by participants of the lobby
EntirelyClaimed ==
    /\ items # <<>>
    /\ \A i \in 1 .. Len(items) :
          /\ claimed_qty_sum(i) = items[i].quantity
          /\ \A u \in UserIds : claims[i][u] > 0 => is_participant(u)

(***************************************************************************)
(* C25: when every item's quantity is entirely claimed by lobby            *)
(* participants, the per-claim rounding loses no money: claimed_base_total *)
(* equals the sum of all item costs exactly and unclaimed_item_total is 0, *)
(* for any split of an item's quantity among any number of participants.   *)
(***************************************************************************)
C25_FullClaimsLoseNoMoney ==
    (Summarised /\ EntirelyClaimed)
    => /\ Body.claimed_base_total = computed_item_subtotal
       /\ Body.unclaimed_item_total = 0

\* the items whose cost the settlement adds on top of the detected totals
UserSelectedItems ==
    {i \in 1 .. Len(items) : items[i].category_source = "user_selected"}

(***************************************************************************)
(* C26: after any sequence of lobby operations (create, item-add,          *)
(* item-update, item-category), the items carrying the user_selected       *)
(* provenance tag, whose costs the settlement adds on top of the detected  *)
(* subtotal and grand total, are exactly the items created through         *)
(* item-add: no item of the scan carries the tag, and every added item     *)
(* does.                                                                   *)
(***************************************************************************)
C26_UserSelectedAreTheAddedItems == UserSelectedItems = ManualItems


(***************************************************************************)
(* C28                                                                     *)
(***************************************************************************)
\* the actors a host-only request (item-update, item-category, claim-reset)
\* with the right passcode and a valid body would be accepted from
AcceptedHostActors ==
    {actor \in Actors :
        \/ \E item_id \in ItemIds, req \in QtyUpdateRequests :
              update_lobby_item_status(TRUE, actor, item_id, req, TRUE) = 200
        \/ \E item_id \in ItemIds :
              update_item_category_status(TRUE, actor, item_id, "veg", "") = 200
        \/ \E item_id \in ItemIds : reset_claim_status(TRUE, actor, item_id) = 200}

\* the host is set by the first join to the user that joined, and is kept
HostStep ==
    /\ ~IsNone(host_user_id) => host_user_id' = host_user_id
    /\ IsNone(host_user_id) /\ joined' > joined => host_user_id' = Some(joined')
    /\ IsNone(host_user_id) /\ joined' = joined => host_user_id' = host_user_id

\* C28: the host is the first participant to join and never changes, and in
\* every reachable lobby state, a lobby nobody has joined included, item-update,
\* item-category and claim-reset succeed only for the host's user id.
C28_HostOnlyOperations ==
    /\ [](AcceptedHostActors \subseteq {host_user_id} \ {None})
    /\ [][HostStep]_vars


(***************************************************************************)
(* C29                                                                     *)
(***************************************************************************)
\* the amounts of the lines detect_bill_totals took as a tax or a service
\* charge: each such line has one entry in tax_breakdown
CountedChargeAmounts == SumSeq(Amounts(BillTotals.detected_tax_breakdown))

\* C29: in detect_bill_totals the amount of each tax or service line is added
\* to exactly one of the running sums tax_total and service_charge, so the two
\* sums together hold the amount of every charge line once, and a grand total
\* derived as subtotal + tax_total + service_charge + round_off counts every
\* charge line exactly once.
C29_ChargeLinesCountedOnce ==
    Detected
    => With(Accumulated, LAMBDA acc :
          /\ acc.tax_total + acc.service_charge = CountedChargeAmounts
          /\ (NoExplicitNoWaterfall /\ SubtotalAndCharge)
             => BillTotals.detected_grand_total =
                   Some(Val(BillTotals.detected_subtotal) + CountedChargeAmounts
                        + acc.round_off))


(***************************************************************************)
(* C30                                                                     *)
(***************************************************************************)
\* the extra share of the participant at position p is the floor of its exact
\* proportional share r, or one cent more
FloorOrNext(p) == Body.users[p].extra_share \in {ExactFloor(p), ExactFloor(p) + 1}

\* the extra share is less than one cent away from r; both sides of
\* |extra_share - r| < 1 are multiplied by item_subtotal
WithinOneCent(p) ==
    With(Body.users[p].extra_share * Body.item_subtotal
            - Body.extra_charges * Body.users[p].base_total,
         LAMBDA diff : 0 - Body.item_subtotal < diff /\ diff < Body.item_subtotal)

\* C30: whenever extra charges are distributed (extra_cents > 0 and
\* item_subtotal > 0), each participant's extra share in cents is floor(r) or
\* floor(r) + 1 for r = extra_cents * base_total / item_subtotal, so that it
\* differs from the exact proportional share r by less than one cent and no
\* participant receives more than one remainder cent.
C30_ShareWithinOneCent ==
    Distributed
    => \A p \in 1 .. Len(Body.users) : FloorOrNext(p) /\ WithinOneCent(p)


(***************************************************************************)
(* C27: when two claim requests for the same item from different           *)
(* participants are interleaved at the granularity of their steps (read    *)
(* the existing claims, check the remaining quantity, write the claim),    *)
(* the stored claims for that item still never sum to more than the item's *)
(* quantity.                                                               *)
(***************************************************************************)
C27_InterleavedClaimsWithinQuantity ==
    \A item_id \in 1 .. Len(items) : claimed_qty_sum(item_id) <= items[item_id].quantity

====
